---------------------------- MODULE Spec2Model ----------------------------
(***************************************************************************)
(* Vend: x402 payment gate and on-chain USDC payment verification.         *)
(*                                                                         *)
(* Two state machines share this module.                                   *)
(*   Spec          the request gate (paymentRequired of the x402 package   *)
(*                 and of the Vend server) handling concurrent requests    *)
(*                 against a small fixed chain;                            *)
(*   VerifierSpec  the USDC verifier (createUSDCVerifier) run on every     *)
(*                 receipt of a bounded family of receipts.                *)
(* JavaScript strings that the code slices or lower-cases are sequences of *)
(* one-character strings; JavaScript numbers are IEEE-754 doubles, built   *)
(* here from multi-limb naturals.                                          *)
(***************************************************************************)
EXTENDS Integers, Sequences, FiniteSets, TLC

(***************************************************************************)
(* Strings                                                                 *)
(***************************************************************************)
Undefined == "<undefined>"

\* JavaScript truthiness of a header / option value (a string or undefined).
Truthy(x) == x \notin {Undefined, ""}

UpperChars == <<"A","B","C","D","E","F","X">>
LowerChars == <<"a","b","c","d","e","f","x">>

LowerChar(c) ==
    IF \E i \in DOMAIN UpperChars : UpperChars[i] = c
    THEN LowerChars[CHOOSE i \in DOMAIN UpperChars : UpperChars[i] = c]
    ELSE c

UpperChar(c) ==
    IF \E i \in DOMAIN LowerChars : LowerChars[i] = c /\ c # "x"
    THEN UpperChars[CHOOSE i \in DOMAIN LowerChars : LowerChars[i] = c]
    ELSE c

\* String.prototype.toLowerCase on a hex string
ToLowerCase(s) == [i \in DOMAIN s |-> LowerChar(s[i])]

\* the same address written with upper-case hex digits (an input variant)
ToUpperHex(s) == [i \in DOMAIN s |-> UpperChar(s[i])]

\* String.prototype.slice(k): drop the first k characters
Slice(s, k) == SubSeq(s, k + 1, Len(s))

Repeat(c, n) == [i \in 1..n |-> c]

HexDigits == <<"0","1","2","3","4","5","6","7","8","9","a","b","c","d","e","f">>

IsHexDigit(c) == \E i \in DOMAIN HexDigits : HexDigits[i] = LowerChar(c)

HexVal(c) == (CHOOSE i \in DOMAIN HexDigits : HexDigits[i] = LowerChar(c)) - 1

DecDigits == <<"0","1","2","3","4","5","6","7","8","9">>

IsDecDigit(c) == \E i \in DOMAIN DecDigits : DecDigits[i] = c

DecVal(c) == (CHOOSE i \in DOMAIN DecDigits : DecDigits[i] = c) - 1

(***************************************************************************)
(* Naturals of more than 31 bits: little-endian limbs, NLimbs of them.     *)
(* Every quantity built below stays under LimbBase^NLimbs.                 *)
(***************************************************************************)
\* one limb holds four hex digits
LimbBase == 2^16

NLimbs == 7

Limbs == 1..NLimbs

\* a limb vector as an evaluated tuple
Big(f) == SubSeq(f, 1, NLimbs)

BigZero == Big([i \in Limbs |-> 0])

\* a natural below 2^31
BigOfInt(x) ==
    Big([i \in Limbs |-> IF i = 1 THEN x % LimbBase
                         ELSE IF i = 2 THEN (x \div LimbBase) % LimbBase
                         ELSE IF i = 3 THEN (x \div LimbBase) \div LimbBase
                         ELSE 0])

BigOne == BigOfInt(1)

BigCmp(a, b) ==
    LET d == {i \in Limbs : a[i] # b[i]}
    IN  IF d = {} THEN 0
        ELSE LET k == CHOOSE i \in d : \A j \in d : j <= i
             IN  IF a[k] < b[k] THEN -1 ELSE 1

BigGeq(a, b) == BigCmp(a, b) >= 0

BigDouble(a) ==
    Big([i \in Limbs |->
        (2 * a[i] + (IF i > 1 /\ 2 * a[i - 1] >= LimbBase THEN 1 ELSE 0)) % LimbBase])

\* a * LimbBase^w
BigShlLimbs(a, w) == Big([i \in Limbs |-> IF i > w THEN a[i - w] ELSE 0])

\* a * 2^b for 0 <= b < 16
BigShlBits(a, b) ==
    Big([i \in Limbs |->
        ((a[i] * 2^b) % LimbBase)
        + (IF i > 1 THEN a[i - 1] \div 2^(16 - b) ELSE 0)])

\* a * 2^n
BigShl(a, n) == BigShlBits(BigShlLimbs(a, n \div 16), n % 16)

\* a - b for a >= b
BigSub(a, b) ==
    LET bw[i \in 0..NLimbs] ==
            IF i = 0 THEN 0
            ELSE IF a[i] - b[i] - bw[i - 1] < 0 THEN 1 ELSE 0
    IN  Big([i \in Limbs |-> (a[i] - b[i] - bw[i - 1] + LimbBase) % LimbBase])

\* a * k + c for small k, c (k, c < LimbBase)
BigMulAdd(a, k, c) ==
    LET cy[i \in 0..NLimbs] ==
            IF i = 0 THEN c
            ELSE (a[i] * k + cy[i - 1]) \div LimbBase
    IN  Big([i \in Limbs |-> (a[i] * k + cy[i - 1]) % LimbBase])

BigIsOdd(a) == a[1] % 2 = 1

\* number of bits of a > 0
RECURSIVE IntBitLen(_)
IntBitLen(x) == IF x = 0 THEN 0 ELSE 1 + IntBitLen(x \div 2)

BigBitLen(a) ==
    LET nz == {i \in Limbs : a[i] # 0}
    IN  IF nz = {} THEN 0
        ELSE LET k == CHOOSE i \in nz : \A j \in nz : j <= i
             IN  (k - 1) * 16 + IntBitLen(a[k])

RECURSIVE BigPow10(_)
BigPow10(k) == IF k = 0 THEN BigOne ELSE BigMulAdd(BigPow10(k - 1), 10, 0)

(***************************************************************************)
(* IEEE-754 binary64 values: nan, or (-1)^neg * m * 2^e with m = 0 or      *)
(* 2^52 <= m < 2^53.  Subnormals, infinities and exponent overflow do not  *)
(* occur for the magnitudes of a token payment and are not represented.    *)
(***************************************************************************)
MantissaBits == 53

FZero == [nan |-> FALSE, neg |-> FALSE, m |-> BigZero, e |-> 0]

FNaN == [nan |-> TRUE, neg |-> FALSE, m |-> BigZero, e |-> 0]

\* one step of binary long division; st = <<remainder, quotient>>, remainder < T
DivStep(st, T) ==
    LET R2 == BigDouble(st[1])
    IN  IF BigGeq(R2, T)
        THEN <<BigSub(R2, T), BigMulAdd(st[2], 2, 1)>>
        ELSE <<R2, BigDouble(st[2])>>

\* k steps.  A zero remainder ends the division: the quotient bits left are 0.
\* The steps are split in halves, which keeps the evaluation shallow.
RECURSIVE DivLoop(_, _, _)
DivLoop(st, T, k) ==
    IF st[1] = BigZero THEN <<BigZero, BigShl(st[2], k)>>
    ELSE IF k = 0 THEN st
    ELSE IF k = 1 THEN DivStep(st, T)
    ELSE DivLoop(DivLoop(st, T, k \div 2), T, k - k \div 2)

\* the double nearest to n/d (round to nearest, ties to even), n, d > 0
RoundRational(n, d) ==
    LET e0 == BigBitLen(n) - BigBitLen(d) - MantissaBits
        N0 == IF e0 < 0 THEN BigShl(n, -e0) ELSE n
        D0 == IF e0 > 0 THEN BigShl(d, e0) ELSE d
        \* now 2^52 < N0/D0 < 2^54
        hi == BigGeq(N0, BigShl(D0, MantissaBits))
        D  == IF hi THEN BigDouble(D0) ELSE D0
        e  == IF hi THEN e0 + 1 ELSE e0
        T  == BigShl(D, MantissaBits - 1)
        qr == DivLoop(<<BigSub(N0, T), BigOne>>, T, MantissaBits - 1)
        q  == qr[2]
        R2 == BigDouble(qr[1])
        c  == BigCmp(R2, T)
        up == c > 0 \/ (c = 0 /\ BigIsOdd(q))
        q1 == IF up THEN BigMulAdd(q, 1, 1) ELSE q
    IN  IF q1 = BigShl(BigOne, MantissaBits)
        THEN [nan |-> FALSE, neg |-> FALSE,
              m |-> BigShl(BigOne, MantissaBits - 1), e |-> e + 1]
        ELSE [nan |-> FALSE, neg |-> FALSE, m |-> q1, e |-> e]

FOfRational(n, d) == IF n = BigZero THEN FZero ELSE RoundRational(n, d)

\* Number(bigint)
NumberOfBig(n) == FOfRational(n, BigOne)

\* a / b for doubles a >= 0, b > 0
FDiv(a, b) ==
    IF a.nan \/ b.nan THEN FNaN
    ELSE IF a.m = BigZero THEN FZero
    ELSE LET r == RoundRational(a.m, b.m)
         IN  [r EXCEPT !.e = @ + a.e - b.e]

\* |a| < |b| for finite doubles
FMagLt(a, b) ==
    IF b.m = BigZero THEN FALSE
    ELSE IF a.m = BigZero THEN TRUE
    ELSE IF a.e # b.e THEN a.e < b.e
    ELSE BigCmp(a.m, b.m) < 0

\* a < b  (false when either is NaN)
FLt(a, b) ==
    IF a.nan \/ b.nan THEN FALSE
    ELSE IF a.neg /\ ~b.neg THEN a.m # BigZero \/ b.m # BigZero
    ELSE IF ~a.neg /\ b.neg THEN FALSE
    ELSE IF a.neg THEN FMagLt(b, a)
    ELSE FMagLt(a, b)

\* a - b for doubles a >= b >= 0
FSubMag(a, b) ==
    IF b.m = BigZero THEN a
    ELSE LET n == BigSub(BigShl(a.m, a.e - b.e), b.m)
         IN  IF n = BigZero THEN FZero
             ELSE LET r == RoundRational(n, BigOne)
                  IN  [r EXCEPT !.e = @ + b.e]

\* a - b for doubles a, b >= 0
FSub(a, b) ==
    IF a.nan \/ b.nan THEN FNaN
    ELSE IF FMagLt(a, b) THEN [FSubMag(b, a) EXCEPT !.neg = TRUE]
    ELSE FSubMag(a, b)

(***************************************************************************)
(* Conversions the verifier applies to strings                             *)
(***************************************************************************)
\* index just past the run of decimal digits of s that starts at i
RECURSIVE ScanDigits(_, _)
ScanDigits(s, i) ==
    IF i <= Len(s) /\ IsDecDigit(s[i]) THEN ScanDigits(s, i + 1) ELSE i

RECURSIVE BigOfDigits(_, _)
BigOfDigits(ds, acc) ==
    IF ds = <<>> THEN acc
    ELSE BigOfDigits(Tail(ds), BigMulAdd(acc, 10, DecVal(Head(ds))))

\* parseFloat on an unsigned decimal literal with an optional fraction:
\* the longest prefix  digits [ "." digits ]  is converted, NaN if there is none
ParseFloat(s) ==
    LET i1     == ScanDigits(s, 1)
        hasDot == i1 <= Len(s) /\ s[i1] = "."
        i2     == IF hasDot THEN ScanDigits(s, i1 + 1) ELSE i1
        ip     == SubSeq(s, 1, i1 - 1)
        fp     == IF hasDot THEN SubSeq(s, i1 + 1, i2 - 1) ELSE <<>>
    IN  IF ip = <<>> /\ fp = <<>> THEN FNaN
        ELSE FOfRational(BigOfDigits(ip \o fp, BigZero), BigPow10(Len(fp)))

\* BigInt(s) accepts "0x" followed by at least one hex digit (otherwise it
\* throws a SyntaxError)
IsHexLiteral(s) ==
    /\ Len(s) > 2
    /\ s[1] = "0"
    /\ s[2] = "x" \/ s[2] = "X"
    /\ \A i \in 3..Len(s) : IsHexDigit(s[i])

\* value of the hex digit k places from the right end of ds (0 beyond its left end)
HexDigitAt(ds, k) == IF k < Len(ds) THEN HexVal(ds[Len(ds) - k]) ELSE 0

\* BigInt("0x...") of a hex literal whose value is below LimbBase^NLimbs:
\* four hex digits per limb
BigIntOfHex(s) ==
    LET ds == Slice(s, 2)
    IN  Big([i \in Limbs |->
              HexDigitAt(ds, 4 * (i - 1))
            + HexDigitAt(ds, 4 * (i - 1) + 1) * 16
            + HexDigitAt(ds, 4 * (i - 1) + 2) * 256
            + HexDigitAt(ds, 4 * (i - 1) + 3) * 4096])

(***************************************************************************)
(* USDC verifier (createUSDCVerifier)                                      *)
(***************************************************************************)
USDC_CONTRACTS ==
    [n \in {"base-mainnet", "base-sepolia"} |->
        IF n = "base-mainnet"
        THEN <<"0","x","8","3","3","5","8","9","f","C","D","6","e","D","b","6","E","0","8","f","4","c","7","C","3","2","D","4","f","7","1","b","5","4","b","d","A","0","2","9","1","3">>
        ELSE <<"0","x","0","3","6","C","b","D","5","3","8","4","2","c","5","4","2","6","6","3","4","e","7","9","2","9","5","4","1","e","C","2","3","1","8","f","3","d","C","F","7","e">>]

TRANSFER_EVENT_SIGNATURE ==
    <<"0","x","d","d","f","2","5","2","a","d","1","b","e","2","c","8","9","b","6","9","c","2","b","0","6","8","f","c","3","7","8","d","a","a","9","5","2","b","a","7","f","1","6","3","c","4","a","1","1","6","2","8","f","5","5","a","4","d","f","5","2","3","b","3","e","f">>

\* tolerance = 0.000001 (the default of options.tolerance)
DefaultTolerance == FOfRational(BigOne, BigPow10(6))

\* the literal 1e6
OneE6 == FOfRational(BigPow10(6), BigOne)

\* usdcContract || USDC_CONTRACTS[network]
ContractAddressOf(options) ==
    IF options.usdcContract # Undefined THEN options.usdcContract
    ELSE IF options.network \in DOMAIN USDC_CONTRACTS THEN USDC_CONTRACTS[options.network]
    ELSE Undefined

\* createUSDCVerifier(options): the verifier's captured configuration, or the
\* error it throws
CreateUSDCVerifier(options) ==
    IF ~options.alchemy
    THEN [error |-> "x402-express: Alchemy SDK instance is required for USDC verifier"]
    ELSE IF ~Truthy(options.network)
    THEN [error |-> "x402-express: network is required for USDC verifier"]
    ELSE IF ContractAddressOf(options) = Undefined
    THEN [error |-> "x402-express: USDC contract not found for network"]
    ELSE [error |-> Undefined,
          network |-> options.network,
          contractAddress |-> ContractAddressOf(options),
          tolerance |-> DefaultTolerance]

\* faulty variant: the status check is dropped
StatusNeverFailed(receipt) == FALSE

\* receipt.status !== 1
StatusFailed(receipt) == receipt.status # 1

\* faulty variant: the emitting contract is not compared
QualifiesAnyContract(log, contractAddress) ==
    /\ Len(log.topics) >= 1
    /\ log.topics[1] = TRANSFER_EVENT_SIGNATURE

\* the predicate given to receipt.logs.find
QualifiesLog(log, contractAddress) ==
    /\ ToLowerCase(log.address) = ToLowerCase(contractAddress)
    /\ Len(log.topics) >= 1
    /\ log.topics[1] = TRANSFER_EVENT_SIGNATURE

\* faulty variant: the last matching element instead of the first
FindLastTransferLog(logs, contractAddress) ==
    IF \E i \in DOMAIN logs : QualifiesLog(logs[i], contractAddress)
    THEN CHOOSE i \in DOMAIN logs :
            /\ QualifiesLog(logs[i], contractAddress)
            /\ \A j \in (i + 1)..Len(logs) : ~QualifiesLog(logs[j], contractAddress)
    ELSE 0

\* Array.prototype.find: the index of the first element that satisfies the
\* predicate, 0 (undefined) when none does
FindTransferLog(logs, contractAddress) ==
    IF \E i \in DOMAIN logs : QualifiesLog(logs[i], contractAddress)
    THEN CHOOSE i \in DOMAIN logs :
            /\ QualifiesLog(logs[i], contractAddress)
            /\ \A j \in 1..(i - 1) : ~QualifiesLog(logs[j], contractAddress)
    ELSE 0

\* how many elements find has handed to its predicate when it returns
LogsExamined(logs, contractAddress) ==
    IF FindTransferLog(logs, contractAddress) = 0 THEN Len(logs)
    ELSE FindTransferLog(logs, contractAddress)

\* decoding throws when topics[2] is undefined or data is no hex literal
DecodeThrows(transferLog) ==
    Len(transferLog.topics) < 3 \/ ~IsHexLiteral(transferLog.data)

\* faulty variant: the recipient is decoded from the from-topic
ToAddressOfSender(transferLog) == <<"0", "x">> \o Slice(transferLog.topics[2], 26)

\* '0x' + transferLog.topics[2].slice(26)
ToAddressOf(transferLog) == <<"0", "x">> \o Slice(transferLog.topics[3], 26)

\* Number(BigInt(transferLog.data)) / 1e6
AmountInUSDC(transferLog) == FDiv(NumberOfBig(BigIntOfHex(transferLog.data)), OneE6)

\* faulty variant: the addresses are compared as written
WrongRecipientExact(toAddress, recipient) == toAddress # recipient

\* toAddress.toLowerCase() !== recipient.toLowerCase()
WrongRecipient(toAddress, recipient) == ToLowerCase(toAddress) # ToLowerCase(recipient)

\* faulty variant: the amount check is dropped
AmountNeverInsufficient(amountInUSDC, expectedAmount, tolerance) == FALSE

\* amountInUSDC < parseFloat(expectedAmount) - tolerance
AmountInsufficient(amountInUSDC, expectedAmount, tolerance) ==
    FLt(amountInUSDC, FSub(ParseFloat(expectedAmount), tolerance))

\* What the verifier does once getTransactionReceipt has settled.  rpc is
\* [kind |-> "error"] (the call rejected), [kind |-> "null"] (no receipt) or
\* [kind |-> "receipt", receipt |-> r].  The result: the boolean returned, the
\* message of the last log call, the number of logs examined and the index of
\* the log decoded (0: none).
Verdict(ok, msg, examined, picked) ==
    [result |-> ok, message |-> msg, examined |-> examined, picked |-> picked]

VerifyTransfer(v, logs, expectedAmount, recipient) ==
    LET k  == FindTransferLog(logs, v.contractAddress)
        ex == LogsExamined(logs, v.contractAddress)
    IN  IF k = 0
        THEN Verdict(FALSE, "No USDC transfer found in transaction", ex, 0)
        ELSE IF DecodeThrows(logs[k])
        THEN Verdict(FALSE, "Error verifying USDC payment", ex, k)
        ELSE IF WrongRecipient(ToAddressOf(logs[k]), recipient)
        THEN Verdict(FALSE, "Payment sent to wrong address", ex, k)
        ELSE IF AmountInsufficient(AmountInUSDC(logs[k]), expectedAmount, v.tolerance)
        THEN Verdict(FALSE, "Payment amount insufficient", ex, k)
        ELSE Verdict(TRUE, "USDC payment verified successfully", ex, k)

USDCVerify(v, rpc, expectedAmount, context) ==
    IF rpc.kind = "error"
    THEN Verdict(FALSE, "Error verifying USDC payment", 0, 0)
    ELSE IF rpc.kind = "null"
    THEN Verdict(FALSE, "Transaction not found", 0, 0)
    ELSE IF StatusFailed(rpc.receipt)
    THEN Verdict(FALSE, "Transaction failed", 0, 0)
    ELSE VerifyTransfer(v, rpc.receipt.logs, expectedAmount, context.recipient)

(***************************************************************************)
(* The chain: accounts, tokens, events and the receipts built from them    *)
(***************************************************************************)
Accounts ==
    [a \in {"merchant", "stranger", "payer"} |->
        IF a = "merchant" THEN <<"0","x","d","8","d","A","6","B","F","2","6","9","6","4","a","F","9","D","7","e","E","d","9","e","0","3","E","5","3","4","1","5","D","3","7","a","A","9","6","0","4","5">>
        ELSE IF a = "stranger" THEN <<"0","x","7","a","2","5","0","d","5","6","3","0","B","4","c","F","5","3","9","7","3","9","d","F","2","C","5","d","A","c","b","4","c","6","5","9","F","2","4","8","8","D">>
        ELSE <<"0","x","b","4","7","e","3","c","d","8","3","7","d","D","F","8","e","4","c","5","7","F","0","5","d","7","0","A","b","8","6","5","d","e","6","e","1","9","3","B","B","B">>]

\* token contracts deployed on the modelled network (base-sepolia): its USDC
\* and one other ERC-20
Tokens ==
    [t \in {"usdc", "other"} |->
        IF t = "usdc" THEN USDC_CONTRACTS["base-sepolia"] ELSE USDC_CONTRACTS["base-mainnet"]]

\* topic0 of the events a token emits: Transfer(address,address,uint256) and
\* Approval(address,address,uint256)
Events ==
    [e \in {"Transfer", "Approval"} |->
        IF e = "Transfer" THEN TRANSFER_EVENT_SIGNATURE
        ELSE <<"0","x","8","c","5","b","e","1","e","5","e","b","e","c","7","d","5","b","d","1","4","f","7","1","4","2","7","d","1","e","8","4","f","3","d","d","0","3","1","4","c","0","f","7","b","2","2","9","1","e","5","b","2","0","0","a","c","8","c","7","c","3","b","9","2","5">>]

\* an address as a 32-byte topic: "0x", 24 zeros, the 40 hex digits
PadTopic(addr) == <<"0", "x">> \o Repeat("0", 24) \o Slice(ToLowerCase(addr), 2)

HexDigitOfInt(x, k) == IF k < 7 THEN HexDigits[((x \div 16^k) % 16) + 1] ELSE "0"

\* a uint256 as event data: "0x" and 64 hex digits
HexData(raw) == <<"0", "x">> \o [i \in 1..64 |-> HexDigitOfInt(raw, 64 - i)]

\* The log entry a node returns for one emitted event.  An event is
\* [token, event, to, raw, upper]: the emitting contract, the event, the
\* second indexed account, the uint256 of the data, and whether the node
\* writes hex digits in upper case.
MkLog(ev) ==
    LET cased(h) == IF ev.upper THEN ToUpperHex(h) ELSE ToLowerCase(h)
    IN  [address |-> cased(Tokens[ev.token]),
         topics  |-> <<Events[ev.event],
                       PadTopic(Accounts["payer"]),
                       cased(PadTopic(Accounts[ev.to]))>>,
         data    |-> HexData(ev.raw)]

Ev(token, event, to, raw, upper) ==
    [token |-> token, event |-> event, to |-> to, raw |-> raw, upper |-> upper]

\* the events a modelled transaction may emit
EventKinds ==
    { Ev("usdc", "Transfer", "merchant", 10000, FALSE),
      Ev("usdc", "Transfer", "merchant", 4998, FALSE),
      Ev("usdc", "Transfer", "merchant", 10000, TRUE),
      Ev("usdc", "Transfer", "stranger", 10000, FALSE),
      Ev("other", "Transfer", "merchant", 10000, FALSE),
      Ev("usdc", "Approval", "merchant", 10000, FALSE) }

\* at most MaxLogs events per transaction
MaxLogs == 2

EventSeqs == UNION {[1..n -> EventKinds] : n \in 0..MaxLogs}

\* what getTransactionReceipt resolves to: null or a receipt
MkReceipt(tx) ==
    IF tx.kind = "null" THEN [kind |-> "null"]
    ELSE [kind |-> "receipt",
          receipt |-> [status |-> tx.status,
                       logs |-> [i \in DOMAIN tx.events |-> MkLog(tx.events[i])]]]

Transactions ==
    {[kind |-> "null"]} \cup
    [kind : {"mined"}, status : {0, 1}, events : EventSeqs]

\* prices a route may ask, as the strings given to paymentRequired
Prices == { <<"0", ".", "0", "1">>, <<"0", ".", "0", "0", "5">> }

(***************************************************************************)
(* The gate: paymentRequired of the x402 package and of the Vend server    *)
(***************************************************************************)
\* Strings the gate only passes along are TLA+ strings; Chars gives the
\* characters of those the USDC verifier parses or lower-cases.
MerchantAddress == "0xd8dA6BF26964aF9D7eEd9e03E53415D37aA96045"

Chars(s) ==
    CASE s = "0.01" -> <<"0", ".", "0", "1">>
      [] s = "0.005" -> <<"0", ".", "0", "0", "5">>
      [] s = MerchantAddress -> Accounts["merchant"]

\* createPaymentInstructions(options) of the package: network and chainId are
\* added to the payment block only when given
CreatePaymentInstructions(options) ==
    [protocol |-> "x402",
     version  |-> "1.0",
     payment  |-> [recipient |-> options.recipient,
                   amount    |-> options.price,
                   currency  |-> options.currency]
                  @@ (IF Truthy(options.network) THEN [network |-> options.network] ELSE <<>>)
                  @@ (IF options.chainId # 0 THEN [chainId |-> options.chainId] ELSE <<>>),
     resource |-> [endpoint |-> options.endpoint, method |-> "GET",
                   description |-> "Protected resource"],
     instructions |-> "steps"]

\* the configuration of the Vend server (config.payment), with
\* PAYMENT_ADDRESS set as validateConfig demands and PAYMENT_NETWORK unset
ServerConfig ==
    [address |-> MerchantAddress, network |-> "base-sepolia", pricePerQuery |-> "0.01"]

\* createPaymentInstructions(endpoint, price) of the Vend server, reading the
\* module-level config
CreatePaymentInstructionsOf(config, endpoint, price) ==
    [protocol |-> "x402",
     version  |-> "1.0",
     payment  |-> [recipient |-> config.address,
                   amount    |-> price,
                   currency  |-> "USDC",
                   network   |-> config.network,
                   chainId   |-> IF config.network = "base-sepolia" THEN 84532 ELSE 8453],
     resource |-> [endpoint |-> endpoint, method |-> "GET",
                   description |-> "Transaction history query"],
     facilitator |-> [url |-> "https://x402.coinbase.com", verification |-> "auto"],
     instructions |-> "steps"]

ServerCreatePaymentInstructions(endpoint, price) ==
    CreatePaymentInstructionsOf(ServerConfig, endpoint, price)

\* res.status(402).json({ error: 'Payment Required', status: 402, ...instructions })
PaymentRequiredResponse(instructions) ==
    [error |-> "Payment Required", status |-> 402] @@ instructions

\* faulty variant: the presented proof is not echoed
InvalidPaymentResponseNoEcho(cfg, paymentHash, paymentAmount) ==
    [error |-> "Invalid Payment", status |-> 402,
     message |-> "Payment could not be verified",
     received |-> [hash |-> Undefined, amount |-> paymentAmount],
     expected |-> [amount |-> cfg.price, currency |-> cfg.currency,
                   recipient |-> cfg.recipient, network |-> cfg.network]]

\* res.status(402).json({ error: 'Invalid Payment', ... }) of the package
InvalidPaymentResponse(cfg, paymentHash, paymentAmount) ==
    [error |-> "Invalid Payment", status |-> 402,
     message |-> "Payment could not be verified",
     received |-> [hash |-> paymentHash, amount |-> paymentAmount],
     expected |-> [amount |-> cfg.price, currency |-> cfg.currency,
                   recipient |-> cfg.recipient, network |-> cfg.network]]

\* the same response of the Vend server
ServerInvalidPaymentResponse(price, paymentHash, paymentAmount) ==
    [error |-> "Invalid Payment", status |-> 402,
     message |-> "Payment could not be verified",
     received |-> [hash |-> paymentHash, amount |-> paymentAmount],
     expected |-> [amount |-> price, currency |-> "USDC",
                   network |-> ServerConfig.network, recipient |-> ServerConfig.address]]

\* res.status(500).json({ error: 'Payment Verification Error', ... })
VerificationErrorResponse ==
    [error |-> "Payment Verification Error", status |-> 500,
     message |-> "Failed to verify payment"]

\* faulty variant: paymentAmount ?? price
AmountOrNullish(paymentAmount, price) ==
    IF paymentAmount # Undefined THEN paymentAmount ELSE price

\* paymentAmount || price
AmountOr(paymentAmount, price) == IF Truthy(paymentAmount) THEN paymentAmount ELSE price

\* the object the package attaches as req.payment
PaymentInfo(cfg, paymentHash, paymentAmount) ==
    [hash |-> paymentHash, amount |-> AmountOr(paymentAmount, cfg.price),
     currency |-> cfg.currency, verified |-> TRUE, timestamp |-> "now"]

\* the object the Vend server attaches as req.payment
ServerPaymentInfo(price, paymentHash, paymentAmount) ==
    [hash |-> paymentHash, amount |-> AmountOr(paymentAmount, price),
     verified |-> TRUE, timestamp |-> "now"]

\* faulty variant: only a missing header counts as no proof
ProofUndefined(paymentHash) == paymentHash = Undefined

\* faulty variant: the required option is ignored
AlwaysRequired(required) == FALSE

\* if (!required)
NotRequired(required) == ~required

\* if (!paymentHash)
NoProof(paymentHash) == ~Truthy(paymentHash)

\* faulty variant: no verdict is taken as a rejection
NeverInvalid(isValid) == FALSE

\* if (!isValid)
NotValid(isValid) == ~isValid

\* faulty variant: the demo proof is accepted in every mode
VerifyPaymentAnyEnv(paymentHash, expectedAmount, env) == paymentHash = "demo"

\* verifyPayment(paymentHash, expectedAmount) of the Vend server, under
\* process.env.NODE_ENV = env
VerifyPayment(paymentHash, expectedAmount, env) ==
    env = "development" /\ paymentHash = "demo"

\* createUSDCVerifier({ alchemy, network: 'base-sepolia' })
SepoliaVerifier ==
    CreateUSDCVerifier([alchemy |-> TRUE, network |-> "base-sepolia", usdcContract |-> Undefined])

\* The gates mounted by the modelled application.  verifier names the
\* function given to paymentRequired: "usdc" the verifier made by
\* createUSDCVerifier, "custom" a function of the integrator (it may return
\* true, return false or throw), "server" the Vend server's verifyPayment.
\* "open" and "serverOpen" are gates built with required: false.
\* chainId 0 stands for an option that is not given.
RouteNames == <<"paid", "custom", "open", "server", "serverOpen">>

Routes ==
    [r \in {RouteNames[k] : k \in DOMAIN RouteNames} \cup {"cheap"} |->
        CASE r = "paid" ->
               [impl |-> "package", price |-> "0.01", currency |-> "USDC",
                recipient |-> MerchantAddress, network |-> "base-sepolia",
                chainId |-> 84532, required |-> TRUE, verifier |-> "usdc"]
          [] r = "custom" ->
               [impl |-> "package", price |-> "0.005", currency |-> "USDC",
                recipient |-> MerchantAddress, network |-> Undefined,
                chainId |-> 0, required |-> TRUE, verifier |-> "custom"]
          [] r = "open" ->
               [impl |-> "package", price |-> "0.01", currency |-> "USDC",
                recipient |-> MerchantAddress, network |-> "base-sepolia",
                chainId |-> 84532, required |-> FALSE, verifier |-> "usdc"]
          [] r = "server" ->
               [impl |-> "server", price |-> "0.01", currency |-> "USDC",
                recipient |-> ServerConfig.address, network |-> ServerConfig.network,
                chainId |-> 84532, required |-> TRUE, verifier |-> "server"]
          [] r = "cheap" ->
               [impl |-> "package", price |-> "0.005", currency |-> "USDC",
                recipient |-> MerchantAddress, network |-> "base-sepolia",
                chainId |-> 84532, required |-> TRUE, verifier |-> "usdc"]
          [] r = "serverOpen" ->
               [impl |-> "server", price |-> "0.01", currency |-> "USDC",
                recipient |-> ServerConfig.address, network |-> ServerConfig.network,
                chainId |-> 84532, required |-> FALSE, verifier |-> "server"]]

\* what each transaction of the chain pays the merchant, in millionths of a
\* USDC
ChainPaid == [h \in {"0xpaid", "0xshort", "0xedge"} |->
                 CASE h = "0xpaid" -> 10000 [] h = "0xshort" -> 4998 [] h = "0xedge" -> 9999]

\* the transactions of the chain the gates' verifiers read: one pays the
\* merchant 0.01 USDC, one 0.004998 USDC, one 0.009999 USDC
Chain ==
    [h \in DOMAIN ChainPaid |->
        [kind |-> "mined", status |-> 1,
         events |-> << Ev("usdc", "Transfer", "merchant", ChainPaid[h], FALSE) >>]]

\* what getTransactionReceipt(paymentHash) resolves to when the RPC answers
ReceiptOf(paymentHash) ==
    IF paymentHash \in DOMAIN Chain THEN MkReceipt(Chain[paymentHash]) ELSE [kind |-> "null"]

\* values of the X-Payment-Hash header a client may send
ProofHeaders == <<Undefined, "", "demo", "0xpaid", "0xshort">>

\* values of the X-Payment-Amount header a client may send
AmountHeaders == <<Undefined, "0.5">>

\* the kinds of request: a route, a proof header and an amount header
NumKinds == Len(RouteNames) * Len(ProofHeaders) * Len(AmountHeaders)

KindRoute(k) == RouteNames[((k - 1) \div (Len(ProofHeaders) * Len(AmountHeaders))) + 1]

KindProof(k) == ProofHeaders[(((k - 1) \div Len(AmountHeaders)) % Len(ProofHeaders)) + 1]

KindAmount(k) == AmountHeaders[((k - 1) % Len(AmountHeaders)) + 1]

\* requests handled concurrently
NumReq == 2

Requests == 1..NumReq

\* values of process.env.NODE_ENV
NodeEnvs == {Undefined, "development", "production"}

VARIABLES
    chainTx,    \* the transaction behind the payment hash the verifier is given
    vreq,       \* the arguments of the call: expectedAmount and context.recipient
    vpc,        \* "idle", "awaitReceipt" (suspended at the await) or "returned"
    vruns       \* one entry per completed call: what the RPC gave, the verdict

vvars == <<chainTx, vreq, vpc, vruns>>

VARIABLES
    reqs,       \* per request: its headers, where its handler stands, what it did
    nodeEnv     \* process.env.NODE_ENV

gvars == <<reqs, nodeEnv>>

VARIABLES
    demo,       \* the options createDemoVerifier was called with
    druns       \* one entry per call of the demo verifier: arguments, result, log

dvars == <<demo, druns>>

\* no demo verifier has been created
NoDemo == /\ demo = [logger |-> FALSE]
          /\ druns = <<>>

VARIABLES
    penv,       \* process.env as config.js reads it when the module is loaded
    built       \* what each construction call was given and what it produced

bvars == <<penv, built>>

\* nothing is under construction
NoBuild == /\ penv = [PAYMENT_ADDRESS |-> Undefined]
           /\ built = <<>>

VARIABLES
    hooked,     \* one request through a gate whose callbacks may throw
    poll,       \* the webhook registry, the polled chain and the polling runs
    cli         \* one invocation of the CLI query command

xvars == <<hooked, poll, cli>>

NoHooked == hooked = [pc |-> "off"]
NoPoll == poll = [pc |-> "off"]
NoCli == cli = [pc |-> "off"]

\* a request as Express hands it to the gate of its route
NewRequest(k) ==
    [route |-> KindRoute(k),
     proof |-> KindProof(k),        \* req.headers['x-payment-hash']
     amount |-> KindAmount(k),      \* req.headers['x-payment-amount']
     pc |-> "arrived",              \* "arrived", "verifying" (at the await), "done"
     verifierCalls |-> 0,           \* calls of the verifier for this request
     asked |-> Undefined,           \* the hash the verifier was called with
     rpc |-> "none",                \* how the receipt lookup ended
     verdict |-> "none",            \* what the verifier did: "true", "false", "threw"
     nextCalls |-> 0,               \* calls of next()
     responses |-> <<>>,            \* the bodies given to res.status(..).json
     payment |-> {}]                \* req.payment, when set

\* the handler of the package up to its first await (or to its end)
PackageGateStart(r, cfg) ==
    IF NotRequired(cfg.required)
    THEN [r EXCEPT !.pc = "done", !.nextCalls = @ + 1]
    ELSE IF NoProof(r.proof)
    THEN [r EXCEPT !.pc = "done",
                   !.responses = Append(@, PaymentRequiredResponse(
                       CreatePaymentInstructions(
                           [endpoint |-> r.route, price |-> cfg.price,
                            currency |-> cfg.currency, recipient |-> cfg.recipient,
                            network |-> cfg.network, chainId |-> cfg.chainId])))]
    ELSE [r EXCEPT !.pc = "verifying", !.verifierCalls = @ + 1, !.asked = r.proof]

\* the handler of the package from the verifier's settlement to its end;
\* out = [rpc, threw, isValid] is what the verifier did
PackageGateFinish(r, cfg, out) ==
    IF out.threw
    THEN [r EXCEPT !.pc = "done", !.rpc = out.rpc, !.verdict = "threw",
                   !.responses = Append(@, VerificationErrorResponse)]
    ELSE IF NotValid(out.isValid)
    THEN [r EXCEPT !.pc = "done", !.rpc = out.rpc,
                   !.verdict = IF out.isValid THEN "true" ELSE "false",
                   !.responses = Append(@, InvalidPaymentResponse(cfg, r.proof, r.amount))]
    ELSE [r EXCEPT !.pc = "done", !.rpc = out.rpc,
                   !.verdict = IF out.isValid THEN "true" ELSE "false",
                   !.payment = {PaymentInfo(cfg, r.proof, r.amount)},
                   !.nextCalls = @ + 1]

\* the handler of the Vend server up to its first await (or to its end)
ServerGateStart(r, price, required) ==
    IF NotRequired(required)
    THEN [r EXCEPT !.pc = "done", !.nextCalls = @ + 1]
    ELSE IF NoProof(r.proof)
    THEN [r EXCEPT !.pc = "done",
                   !.responses = Append(@, PaymentRequiredResponse(
                       ServerCreatePaymentInstructions(r.route, price)))]
    ELSE [r EXCEPT !.pc = "verifying", !.verifierCalls = @ + 1, !.asked = r.proof]

\* the handler of the Vend server from the return of verifyPayment to its end
ServerGateFinish(r, price, isValid) ==
    IF NotValid(isValid)
    THEN [r EXCEPT !.pc = "done",
                   !.verdict = IF isValid THEN "true" ELSE "false",
                   !.responses = Append(@, ServerInvalidPaymentResponse(price, r.proof, r.amount))]
    ELSE [r EXCEPT !.pc = "done",
                   !.verdict = IF isValid THEN "true" ELSE "false",
                   !.payment = {ServerPaymentInfo(price, r.proof, r.amount)},
                   !.nextCalls = @ + 1]

\* how a receipt lookup may end for a proof: the RPC rejects, or it resolves
\* to the receipt of the transaction (null for a hash the chain does not know)
Lookups == DOMAIN Chain \cup {"unknown", "error"}

LookupOf(paymentHash) == IF paymentHash \in DOMAIN Chain THEN paymentHash ELSE "unknown"

RpcOf(lookup) == IF lookup = "error" THEN [kind |-> "error"] ELSE ReceiptOf(lookup)

\* The verdicts of the routes' USDC verifiers.  The verifier keeps no state,
\* so its verdict is computed once per route and lookup and looked up by the
\* handlers.
RouteUSDCVerify ==
    [name \in {n \in DOMAIN Routes : Routes[n].verifier = "usdc"}, lookup \in Lookups |->
        USDCVerify(SepoliaVerifier, RpcOf(lookup), Chars(Routes[name].price),
                   [recipient |-> Chars(Routes[name].recipient)]).result]

\* faulty variant: verdicts are kept in a cache shared by all routes and keyed
\* by the proof hash alone
SharedVerdictCache(name, paymentHash) ==
    IF \E j \in DOMAIN reqs : /\ reqs[j].pc = "done"
                              /\ reqs[j].asked = paymentHash
                              /\ reqs[j].verdict = "true"
    THEN { [rpc |-> "none", threw |-> FALSE, isValid |-> TRUE] }
    ELSE IF Routes[name].verifier = "usdc"
    THEN { [rpc |-> RpcOf(lookup).kind, threw |-> FALSE,
            isValid |-> RouteUSDCVerify[name, lookup]] :
           lookup \in {LookupOf(paymentHash), "error"} }
    ELSE { [rpc |-> "none", threw |-> FALSE, isValid |-> TRUE],
           [rpc |-> "none", threw |-> FALSE, isValid |-> FALSE],
           [rpc |-> "none", threw |-> TRUE, isValid |-> FALSE] }

\* what a route's verifier may do for a proof: the USDC verifier returns its
\* verdict on whatever the lookup gave (the receipt, null, or a rejection);
\* a custom verifier returns true, returns false or throws
VerifierOutcomes(name, paymentHash) ==
    IF Routes[name].verifier = "usdc"
    THEN { [rpc |-> RpcOf(lookup).kind, threw |-> FALSE,
            isValid |-> RouteUSDCVerify[name, lookup]] :
           lookup \in {LookupOf(paymentHash), "error"} }
    ELSE { [rpc |-> "none", threw |-> FALSE, isValid |-> TRUE],
           [rpc |-> "none", threw |-> FALSE, isValid |-> FALSE],
           [rpc |-> "none", threw |-> TRUE, isValid |-> FALSE] }

Nondecreasing(ks) == \A i \in DOMAIN ks : \A j \in DOMAIN ks : i <= j => ks[i] <= ks[j]

\* The application is up and NumReq requests have arrived.  Requests are
\* interchangeable, so they are numbered in the order of their kind.
Init ==
    /\ nodeEnv \in NodeEnvs
    /\ \E ks \in [Requests -> 1..NumKinds] :
          /\ Nondecreasing(ks)
          /\ reqs = [i \in Requests |-> NewRequest(ks[i])]
    /\ chainTx = [kind |-> "null"]
    /\ vreq = [expectedAmount |-> Chars("0.01"), recipient |-> Accounts["merchant"]]
    /\ vpc = "idle"
    /\ vruns = <<>>
    /\ NoDemo
    /\ NoBuild
    /\ NoHooked /\ NoPoll /\ NoCli

PackageGate(i) ==
    /\ reqs[i].pc = "arrived"
    /\ Routes[reqs[i].route].impl = "package"
    /\ reqs' = [reqs EXCEPT ![i] = PackageGateStart(reqs[i], Routes[reqs[i].route])]
    /\ UNCHANGED <<nodeEnv, vvars, dvars, bvars, xvars>>

PackageGateResume(i) ==
    /\ reqs[i].pc = "verifying"
    /\ Routes[reqs[i].route].impl = "package"
    /\ \E out \in VerifierOutcomes(reqs[i].route, reqs[i].proof) :
          reqs' = [reqs EXCEPT ![i] = PackageGateFinish(reqs[i], Routes[reqs[i].route], out)]
    /\ UNCHANGED <<nodeEnv, vvars, dvars, bvars, xvars>>

ServerGate(i) ==
    /\ reqs[i].pc = "arrived"
    /\ Routes[reqs[i].route].impl = "server"
    /\ reqs' = [reqs EXCEPT ![i] =
                  ServerGateStart(reqs[i], Routes[reqs[i].route].price,
                                  Routes[reqs[i].route].required)]
    /\ UNCHANGED <<nodeEnv, vvars, dvars, bvars, xvars>>

ServerGateResume(i) ==
    /\ reqs[i].pc = "verifying"
    /\ Routes[reqs[i].route].impl = "server"
    /\ reqs' = [reqs EXCEPT ![i] =
                  ServerGateFinish(reqs[i], Routes[reqs[i].route].price,
                                   VerifyPayment(reqs[i].proof, Routes[reqs[i].route].price,
                                                 nodeEnv))]
    /\ UNCHANGED <<nodeEnv, vvars, dvars, bvars, xvars>>

Next ==
    \E i \in Requests :
        \/ PackageGate(i)
        \/ PackageGateResume(i)
        \/ ServerGate(i)
        \/ ServerGateResume(i)

(***************************************************************************)
(* VerifierSpec: one USDC verifier, called on one transaction              *)
(***************************************************************************)
\* the verifier is called at most MaxRuns times on the same arguments
MaxRuns == 2

VerifierInit ==
    /\ chainTx \in Transactions
    /\ vreq \in [expectedAmount : Prices, recipient : {Accounts["merchant"]}]
    /\ vpc = "idle"
    /\ vruns = <<>>
    /\ reqs = <<>>
    /\ nodeEnv = Undefined
    /\ NoDemo
    /\ NoBuild
    /\ NoHooked /\ NoPoll /\ NoCli

\* the verifier is called and runs up to  await getTransactionReceipt
VerifierCall ==
    /\ vpc \in {"idle", "returned"}
    /\ Len(vruns) < MaxRuns
    /\ vpc' = "awaitReceipt"
    /\ UNCHANGED <<chainTx, vreq, vruns, gvars, dvars, bvars, xvars>>

VerifierSettle(rpc) ==
    /\ vpc = "awaitReceipt"
    /\ vpc' = "returned"
    /\ vruns' = Append(vruns,
                       [rpc |-> rpc.kind,
                        verdict |-> USDCVerify(SepoliaVerifier, rpc, vreq.expectedAmount,
                                               [recipient |-> vreq.recipient])])
    /\ UNCHANGED <<chainTx, vreq, gvars, dvars, bvars, xvars>>

\* getTransactionReceipt resolves (null or the receipt) and the verifier runs
\* to its return
ReceiptResolves == VerifierSettle(MkReceipt(chainTx))

\* getTransactionReceipt rejects (network error, timeout, rate limit)
ReceiptRejects == VerifierSettle([kind |-> "error"])

VerifierNext == VerifierCall \/ ReceiptResolves \/ ReceiptRejects

vars == <<gvars, vvars, dvars, bvars, xvars>>

Spec == Init /\ [][Next]_vars

VerifierSpec == VerifierInit /\ [][VerifierNext]_vars

(***************************************************************************)
(* Properties of the USDC verifier, stated on the emitted events (exact    *)
(* integers, account names) rather than on the strings the verifier reads  *)
(***************************************************************************)
RECURSIVE IntOfDigits(_)
IntOfDigits(ds) ==
    IF ds = <<>> THEN 0
    ELSE 10 * IntOfDigits(SubSeq(ds, 1, Len(ds) - 1)) + DecVal(ds[Len(ds)])

\* a decimal price in millionths of a USDC, exactly
ExactMicro(s) ==
    LET i1 == ScanDigits(s, 1)
        fp == SubSeq(s, i1 + 1, Len(s))
    IN  IntOfDigits(SubSeq(s, 1, i1 - 1)) * 10^6
        + IntOfDigits(fp \o SubSeq(<<"0","0","0","0","0","0">>, 1, 6 - Len(fp)))

\* the event was emitted by the network's USDC contract and is a Transfer
IsUSDCTransfer(ev) == ev.token = "usdc" /\ ev.event = "Transfer"

HasUSDCTransfer(events) == \E i \in DOMAIN events : IsUSDCTransfer(events[i])

FirstUSDCTransfer(events) ==
    CHOOSE i \in DOMAIN events :
        /\ IsUSDCTransfer(events[i])
        /\ \A j \in 1..(i - 1) : ~IsUSDCTransfer(events[j])

\* completed calls in which the RPC delivered the receipt of a mined transaction
ReceiptRuns == {i \in DOMAIN vruns : vruns[i].rpc = "receipt"}

Mined == chainTx.kind = "mined"

\* C6: whenever the USDC verifier returns true, the transfer it decoded pays
\* the required recipient and its raw amount divided by 10^6 is at least the
\* required amount minus the tolerance (one millionth).
C6_VerifiedImpliesRecipientAndAmount ==
    \A i \in DOMAIN vruns :
        vruns[i].verdict.result =>
            /\ Mined
            /\ vruns[i].verdict.picked \in DOMAIN chainTx.events
            /\ LET ev == chainTx.events[vruns[i].verdict.picked]
               IN  /\ Accounts[ev.to] = vreq.recipient
                   /\ ToLowerCase(ToAddressOf(MkLog(ev))) = ToLowerCase(vreq.recipient)
                   /\ ev.raw >= ExactMicro(vreq.expectedAmount) - 1

\* a call returned true on a transfer that pays more than the price asked
C6_Witness ==
    /\ Mined
    /\ \E i \in DOMAIN vruns :
        /\ vruns[i].verdict.result
        /\ chainTx.events[vruns[i].verdict.picked].raw > ExactMicro(vreq.expectedAmount)

\* C7: a transaction with no receipt or with a failed status is never
\* verified, whatever its logs; the verdict is reached before any log is
\* examined.
C7_NoReceiptOrFailedNeverVerified ==
    \A i \in DOMAIN vruns :
        (vruns[i].rpc = "null" \/ (vruns[i].rpc = "receipt" /\ chainTx.status # 1)) =>
            /\ ~vruns[i].verdict.result
            /\ vruns[i].verdict.examined = 0
            /\ vruns[i].verdict.picked = 0
            /\ vruns[i].verdict.message =
                 (IF vruns[i].rpc = "null" THEN "Transaction not found" ELSE "Transaction failed")

\* a failed transaction whose first log is a sufficient USDC transfer to the
\* merchant was rejected
C7_Witness ==
    /\ Mined
    /\ chainTx.status = 0
    /\ chainTx.events # <<>>
    /\ chainTx.events[1] = Ev("usdc", "Transfer", "merchant", 10000, FALSE)
    /\ \E i \in ReceiptRuns : ~vruns[i].verdict.result

\* C8: a log is taken as the payment only if the USDC contract emitted it
\* and it is a Transfer; a successful receipt with no such log is rejected
\* with "no transfer found".
C8_OnlyUSDCTransferQualifies ==
    \A i \in ReceiptRuns :
        chainTx.status = 1 =>
            /\ vruns[i].verdict.picked # 0 =>
                 /\ vruns[i].verdict.picked \in DOMAIN chainTx.events
                 /\ IsUSDCTransfer(chainTx.events[vruns[i].verdict.picked])
            /\ ~HasUSDCTransfer(chainTx.events) =>
                 /\ ~vruns[i].verdict.result
                 /\ vruns[i].verdict.picked = 0
                 /\ vruns[i].verdict.message = "No USDC transfer found in transaction"

\* a successful receipt holding only a transfer of another token and a USDC
\* approval was rejected
C8_Witness ==
    /\ Mined
    /\ chainTx.status = 1
    /\ chainTx.events = << Ev("other", "Transfer", "merchant", 10000, FALSE),
                           Ev("usdc", "Approval", "merchant", 10000, FALSE) >>
    /\ \E i \in ReceiptRuns : vruns[i].verdict.message = "No USDC transfer found in transaction"

\* the receipt with only the given event
OnlyEvent(ev) == MkReceipt([kind |-> "mined", status |-> 1, events |-> <<ev>>])

\* C9: when several logs qualify, the verdict is the one of the first
\* qualifying log alone, and every run on the same receipt gives it.
C9_FirstQualifyingLogDecides ==
    (Mined /\ chainTx.status = 1 /\ HasUSDCTransfer(chainTx.events) /\ ReceiptRuns # {}) =>
        LET k == FirstUSDCTransfer(chainTx.events)
            i == CHOOSE r \in ReceiptRuns : \A q \in ReceiptRuns : q <= r
            alone == USDCVerify(SepoliaVerifier, OnlyEvent(chainTx.events[k]),
                                vreq.expectedAmount, [recipient |-> vreq.recipient])
        IN  /\ vruns[i].verdict.picked = k
            /\ vruns[i].verdict.examined = k
            /\ vruns[i].verdict.result = alone.result
            /\ vruns[i].verdict.message = alone.message
            /\ \A j \in ReceiptRuns : vruns[j].verdict = vruns[i].verdict

\* two runs on a receipt whose first USDC transfer pays a stranger and whose
\* second pays the merchant in full: both rejected for the wrong address
C9_Witness ==
    /\ Mined
    /\ chainTx.status = 1
    /\ chainTx.events = << Ev("usdc", "Transfer", "stranger", 10000, FALSE),
                           Ev("usdc", "Transfer", "merchant", 10000, FALSE) >>
    /\ Cardinality(ReceiptRuns) >= 2
    /\ \A i \in ReceiptRuns : vruns[i].verdict.message = "Payment sent to wrong address"

\* C10: a successful receipt whose first USDC transfer pays the merchant,
\* in whatever hex case the node writes it, an amount of at least the price
\* is verified.
C10_SufficientTransferVerified ==
    \A i \in ReceiptRuns :
        ( /\ chainTx.status = 1
          /\ HasUSDCTransfer(chainTx.events)
          /\ LET ev == chainTx.events[FirstUSDCTransfer(chainTx.events)]
             IN  ev.to = "merchant" /\ ev.raw >= ExactMicro(vreq.expectedAmount) )
        => /\ vruns[i].verdict.result
           /\ vruns[i].verdict.message = "USDC payment verified successfully"

\* raw 10000 against the price 0.01, written by the node in upper case
C10_Witness ==
    /\ Mined
    /\ chainTx.status = 1
    /\ chainTx.events # <<>>
    /\ chainTx.events[1] = Ev("usdc", "Transfer", "merchant", 10000, TRUE)
    /\ vreq.expectedAmount = <<"0", ".", "0", "1">>
    /\ \E i \in ReceiptRuns : vruns[i].verdict.result

(***************************************************************************)
(* Properties of the gate                                                  *)
(***************************************************************************)
RouteOf(i) == Routes[reqs[i].route]

Done(i) == reqs[i].pc = "done"

\* the request carries no proof: the header is absent or empty
ProofAbsent(i) == reqs[i].proof \in {Undefined, ""}

\* C1: the gate calls next for a request only if it was built with
\* required=false or the verifier returned true for that request's proof;
\* no request whose verifier returned false or threw reaches next.
C1_NextOnlyWhenVerifiedOrNotRequired ==
    \A i \in DOMAIN reqs :
        /\ reqs[i].nextCalls > 0 =>
              \/ ~RouteOf(i).required
              \/ /\ reqs[i].verdict = "true"
                 /\ reqs[i].verifierCalls = 1
                 /\ reqs[i].asked = reqs[i].proof
        /\ reqs[i].verdict \in {"false", "threw"} => reqs[i].nextCalls = 0

\* one request reached next after a true verdict while another, whose
\* verifier threw, did not
C1_Witness ==
    /\ \E i \in DOMAIN reqs :
          RouteOf(i).required /\ reqs[i].verdict = "true" /\ reqs[i].nextCalls = 1
    /\ \E j \in DOMAIN reqs :
          Done(j) /\ reqs[j].verdict = "threw" /\ reqs[j].nextCalls = 0

DefinitiveInvalid(i) == reqs[i].verdict = "false" /\ reqs[i].rpc # "error"

C4_LookupFailureGets5xx ==
    \A i \in DOMAIN reqs :
        (Done(i) /\ reqs[i].rpc = "error") =>
            /\ reqs[i].verdict # "false"
            /\ Len(reqs[i].responses) = 1
            /\ reqs[i].responses[1].status >= 500

\* which of the three cases a rejected request is
CaseOf(i) ==
    IF ProofAbsent(i) THEN "no proof"
    ELSE IF reqs[i].rpc = "error" \/ reqs[i].verdict = "threw" THEN "could not verify"
    ELSE "invalid proof"

ShapeOf(resp) == [status |-> resp.status, error |-> resp.error, fields |-> DOMAIN resp]

Rejected(i) == Done(i) /\ Len(reqs[i].responses) = 1

\* C5: the response tells which case occurred - no proof (402 'Payment
\* Required'), invalid proof (402 'Invalid Payment'), verification could
\* not be carried out (5xx) - and requests of different cases never get
\* responses of the same shape.
C5_ThreeCasesDistinguishable ==
    /\ \A i \in DOMAIN reqs :
          Rejected(i) =>
              LET resp == reqs[i].responses[1]
              IN  CASE CaseOf(i) = "no proof" ->
                         resp.status = 402 /\ resp.error = "Payment Required"
                    [] CaseOf(i) = "invalid proof" ->
                         resp.status = 402 /\ resp.error = "Invalid Payment"
                    [] CaseOf(i) = "could not verify" ->
                         resp.status >= 500
    /\ \A i \in DOMAIN reqs : \A j \in DOMAIN reqs :
          (Rejected(i) /\ Rejected(j) /\ CaseOf(i) # CaseOf(j)) =>
              ShapeOf(reqs[i].responses[1]) # ShapeOf(reqs[j].responses[1])

(***************************************************************************)
(* BoundarySpec: the USDC verifier on single transfers to the merchant     *)
(* whose amount is at, or a few millionths below, the price asked          *)
(***************************************************************************)
\* prices given to paymentRequired in the routes and in the package's README
BoundaryPrices ==
    { <<"0", ".", "0", "1">>, <<"0", ".", "0", "0", "5">>,
      <<"0", ".", "0", "0", "1">>, <<"1", ".", "0", "0">> }

\* a transfer falls short of the price by at most MaxShort millionths
MaxShort == 2

BoundaryInit ==
    /\ \E p \in BoundaryPrices : \E d \in 0..MaxShort :
          /\ vreq = [expectedAmount |-> p, recipient |-> Accounts["merchant"]]
          /\ chainTx = [kind |-> "mined", status |-> 1,
                        events |-> << Ev("usdc", "Transfer", "merchant",
                                         ExactMicro(p) - d, FALSE) >>]
    /\ vpc = "idle"
    /\ vruns = <<>>
    /\ reqs = <<>>
    /\ nodeEnv = Undefined
    /\ NoDemo
    /\ NoBuild
    /\ NoHooked /\ NoPoll /\ NoCli

BoundarySpec == BoundaryInit /\ [][VerifierNext]_vars

\* the transaction is one USDC transfer to the merchant
SingleTransferToMerchant ==
    /\ Mined
    /\ chainTx.status = 1
    /\ Len(chainTx.events) = 1
    /\ IsUSDCTransfer(chainTx.events[1])
    /\ chainTx.events[1].to = "merchant"

\* C11: with the default tolerance of one millionth, a transfer of exactly
\* the price minus the tolerance is verified, and any lower transfer is
\* rejected as an insufficient amount.
C11_ToleranceBoundary ==
    \A i \in ReceiptRuns :
        SingleTransferToMerchant =>
            LET raw == chainTx.events[1].raw
                required == ExactMicro(vreq.expectedAmount)
            IN  /\ raw = required - 1 => vruns[i].verdict.result
                /\ raw < required - 1 =>
                     /\ ~vruns[i].verdict.result
                     /\ vruns[i].verdict.message = "Payment amount insufficient"

\* the failure reason a log message of the verifier stands for
FailureReason(message) ==
    CASE message = "Transaction not found" -> "TransactionNotFound"
      [] message = "Transaction failed" -> "TransactionFailed"
      [] message = "No USDC transfer found in transaction" -> "NoTransferFound"
      [] message = "Payment sent to wrong address" -> "WrongRecipient"
      [] message = "Payment amount insufficient" -> "InsufficientAmount"
      [] OTHER -> "other"

\* the first check a lookup result fails, in the order receipt, status,
\* transfer log, recipient, amount
FirstFailedCheck ==
    IF ~Mined THEN "TransactionNotFound"
    ELSE IF chainTx.status # 1 THEN "TransactionFailed"
    ELSE IF ~HasUSDCTransfer(chainTx.events) THEN "NoTransferFound"
    ELSE IF chainTx.events[FirstUSDCTransfer(chainTx.events)].to # "merchant"
    THEN "WrongRecipient"
    ELSE "InsufficientAmount"

\* C12: every failed verification reports one of the five reasons
\* TransactionNotFound, TransactionFailed, NoTransferFound, WrongRecipient,
\* InsufficientAmount, namely that of the first check that fails in the
\* order receipt, status, transfer log, recipient, amount.
C12_FailureReasonOfFirstFailedCheck ==
    \A i \in DOMAIN vruns :
        ~vruns[i].verdict.result =>
            /\ FailureReason(vruns[i].verdict.message) # "other"
            /\ FailureReason(vruns[i].verdict.message) = FirstFailedCheck

(***************************************************************************)
(* DemoSpec: one demo verifier, called while NODE_ENV may be reassigned    *)
(***************************************************************************)
\* Array.prototype.includes on an array of strings
Includes(array, x) == \E i \in DOMAIN array : array[i] = x

\* createDemoVerifier: the destructuring defaults of its options
CreateDemoVerifier(options) ==
    [acceptedHashes |-> IF "acceptedHashes" \in DOMAIN options
                        THEN options.acceptedHashes ELSE <<"demo">>,
     enabledInProduction |-> IF "enabledInProduction" \in DOMAIN options
                             THEN options.enabledInProduction ELSE FALSE,
     logger |-> IF "logger" \in DOMAIN options THEN options.logger ELSE FALSE]

\* log: the logger is called only when one was given
DemoLog(v, message, level, data) ==
    IF v.logger THEN << [message |-> message, level |-> level, data |-> data] >>
    ELSE << >>

\* the verifier createDemoVerifier returns, called while NODE_ENV is env
DemoVerify(v, paymentHash, expectedAmount, context, env) ==
    LET isProduction == env = "production"
        isAccepted == Includes(v.acceptedHashes, paymentHash)
    IN  IF isProduction /\ ~v.enabledInProduction
        THEN [result |-> FALSE,
              logs |-> DemoLog(v, "Demo verifier disabled in production", "error",
                               [paymentHash |-> paymentHash])]
        ELSE IF isAccepted
        THEN [result |-> TRUE,
              logs |-> DemoLog(v, "Demo payment accepted", "warn",
                               [paymentHash |-> paymentHash,
                                expectedAmount |-> expectedAmount,
                                environment |-> env])]
        ELSE [result |-> FALSE,
              logs |-> DemoLog(v, "Demo payment rejected", "warn",
                               [paymentHash |-> paymentHash,
                                acceptedHashes |-> v.acceptedHashes])]

\* the option objects createDemoVerifier is called with: each key given or not
DemoOptions ==
    { [k \in ks |-> CASE k = "acceptedHashes" -> a
                      [] k = "enabledInProduction" -> TRUE
                      [] k = "logger" -> TRUE] :
        ks \in SUBSET {"acceptedHashes", "enabledInProduction", "logger"},
        a \in { << >>, <<"0xpaid", "demo">> } }

DemoProofs == {"demo", "0xpaid"}
DemoAmounts == {"0.01", "0.005"}
DemoContexts == {"/paid", "/custom"}

\* the demo verifier is called at most MaxDemoRuns times
MaxDemoRuns == 2

DemoInit ==
    /\ demo \in DemoOptions
    /\ druns = <<>>
    /\ nodeEnv \in NodeEnvs
    /\ reqs = <<>>
    /\ chainTx = [kind |-> "null"]
    /\ vreq = [expectedAmount |-> Chars("0.01"), recipient |-> Accounts["merchant"]]
    /\ vpc = "idle"
    /\ vruns = <<>>
    /\ NoBuild
    /\ NoHooked /\ NoPoll /\ NoCli

\* one call of the verifier; it has no await, so it runs to its return
DemoCall(paymentHash, expectedAmount, context) ==
    /\ Len(druns) < MaxDemoRuns
    /\ druns' = Append(druns,
                       [paymentHash |-> paymentHash,
                        expectedAmount |-> expectedAmount,
                        context |-> context,
                        env |-> nodeEnv,
                        out |-> DemoVerify(CreateDemoVerifier(demo), paymentHash,
                                           expectedAmount, context, nodeEnv)])
    /\ UNCHANGED <<demo, gvars, vvars, bvars, xvars>>

\* process.env.NODE_ENV is assigned between calls
SetNodeEnv(e) ==
    /\ e # nodeEnv
    /\ nodeEnv' = e
    /\ UNCHANGED <<reqs, dvars, vvars, bvars, xvars>>

DemoNext ==
    \/ \E h \in DemoProofs, a \in DemoAmounts, c \in DemoContexts : DemoCall(h, a, c)
    \/ \E e \in NodeEnvs : SetNodeEnv(e)

DemoSpec == DemoInit /\ [][DemoNext]_vars

\* the allow-list the verifier was configured with
AllowList == IF "acceptedHashes" \in DOMAIN demo THEN demo.acceptedHashes ELSE <<"demo">>

\* C13: while NODE_ENV is 'production' the demo verifier returns false for
\* every proof under every configuration, an allow-list match included, and
\* logs a warning.
C13_DemoRefusesInProduction ==
    \A i \in DOMAIN druns :
        druns[i].env = "production" =>
            /\ ~druns[i].out.result
            /\ Len(druns[i].out.logs) > 0

\* C14: the demo verifier returns true exactly when the proof is in the
\* allow-list and NODE_ENV explicitly names a non-production mode; the
\* expected amount and the context never change the result.
C14_DemoTrueIffAllowedAndNonProduction ==
    /\ \A i \in DOMAIN druns :
          druns[i].out.result <=>
              /\ Includes(AllowList, druns[i].paymentHash)
              /\ druns[i].env \notin {Undefined, "production"}
    /\ \A i, j \in DOMAIN druns :
          (druns[i].paymentHash = druns[j].paymentHash /\ druns[i].env = druns[j].env)
              => druns[i].out.result = druns[j].out.result

Config(env) ==
    [address |-> env.PAYMENT_ADDRESS,
     network |-> IF Truthy(env.PAYMENT_NETWORK) THEN env.PAYMENT_NETWORK ELSE "base-sepolia",
     pricePerQuery |-> "0.01"]

\* validateConfig: the names of the required variables that are missing
ValidateConfig(env) ==
    { k \in {"ALCHEMY_API_KEY", "PAYMENT_ADDRESS"} : ~Truthy(env[k]) }

\* paymentRequired(options) of the package up to the return of the
\* middleware: the error it throws, or the options the middleware captured.
\* options.verifier is Undefined, "object" or "function".
PaymentRequired(options) ==
    IF ~Truthy(options.verifier) \/ options.verifier # "function"
    THEN [error |-> "x402-express: verifier function is required"]
    ELSE IF ~Truthy(options.price) \/ ~Truthy(options.currency) \/ ~Truthy(options.recipient)
    THEN [error |-> "x402-express: price, currency, and recipient are required"]
    ELSE [error |-> Undefined, price |-> options.price, currency |-> options.currency,
          recipient |-> options.recipient, network |-> options.network,
          chainId |-> options.chainId]

\* paymentRequired(options) of the Vend server: price defaults to
\* config.payment.pricePerQuery, nothing is validated
ServerPaymentRequired(options, config) ==
    [error |-> Undefined,
     price |-> IF options.price = Undefined THEN config.pricePerQuery ELSE options.price]

\* a gate that was built answers a request that carries no proof
GateChallenge(kind, gate, config, endpoint) ==
    IF kind = "package"
    THEN PaymentRequiredResponse(CreatePaymentInstructions(
             [endpoint |-> endpoint, price |-> gate.price, currency |-> gate.currency,
              recipient |-> gate.recipient, network |-> gate.network,
              chainId |-> gate.chainId]))
    ELSE PaymentRequiredResponse(CreatePaymentInstructionsOf(config, endpoint, gate.price))

OptionalStrings(S) == {Undefined, ""} \cup S

PackageGateOptions ==
    [price : OptionalStrings({"0.01"}), currency : OptionalStrings({"USDC"}),
     recipient : {Undefined, MerchantAddress},
     verifier : {Undefined, "object", "function"},
     network : {"base-sepolia"}, chainId : {84532}]

\* via: the gate is mounted by index.js, which runs validateConfig before it
\* listens, or it is imported on its own as tests/payment.test.js does
ServerGateOptions == [price : OptionalStrings({"0.005"}), via : {"index", "direct"}]

NetworkNames == {Undefined, "base-sepolia", "base-mainnet", "eth-mainnet"}

USDCVerifierOptions ==
    [alchemy : BOOLEAN, network : NetworkNames,
     usdcContract : {Undefined, MerchantAddress}]

ProcessEnvs ==
    [ALCHEMY_API_KEY : {Undefined, "key"}, PAYMENT_ADDRESS : {Undefined, MerchantAddress},
     PAYMENT_NETWORK : NetworkNames]

\* at most MaxBuilt construction calls are made
MaxBuilt == 1

BuildInit ==
    /\ penv \in ProcessEnvs
    /\ built = <<>>
    /\ NoDemo
    /\ NoHooked /\ NoPoll /\ NoCli
    /\ reqs = <<>>
    /\ nodeEnv = Undefined
    /\ chainTx = [kind |-> "null"]
    /\ vreq = [expectedAmount |-> Chars("0.01"), recipient |-> Accounts["merchant"]]
    /\ vpc = "idle"
    /\ vruns = <<>>

Construct(kind, options, out) ==
    /\ Len(built) < MaxBuilt
    /\ built' = Append(built, [kind |-> kind, options |-> options, out |-> out,
                               served |-> << >>])
    /\ UNCHANGED <<penv, gvars, vvars, dvars, xvars>>

BuildPackageGate == \E o \in PackageGateOptions : Construct("package", o, PaymentRequired(o))

BuildServerGate ==
    \E o \in ServerGateOptions : Construct("server", o, ServerPaymentRequired(o, Config(penv)))

BuildUSDCVerifier ==
    \E o \in USDCVerifierOptions :
        Construct("usdc", o, [error |-> CreateUSDCVerifier(o).error])

\* a request without proof reaches a gate that was built; the server behind
\* index.js has exited if validateConfig threw
Serve(i) ==
    /\ built[i].kind \in {"package", "server"}
    /\ built[i].out.error = Undefined
    /\ built[i].served = << >>
    /\ (built[i].kind = "server" /\ built[i].options.via = "index")
           => ValidateConfig(penv) = {}
    /\ built' = [built EXCEPT ![i].served =
                    << GateChallenge(built[i].kind, built[i].out, Config(penv), "/paid") >>]
    /\ UNCHANGED <<penv, gvars, vvars, dvars, xvars>>

BuildNext ==
    \/ BuildPackageGate
    \/ BuildServerGate
    \/ BuildUSDCVerifier
    \/ \E i \in DOMAIN built : Serve(i)

BuildSpec == BuildInit /\ [][BuildNext]_vars

\* the payment requirement a gate is constructed from
RequirementOf(b) ==
    IF b.kind = "package"
    THEN [recipient |-> b.options.recipient, amount |-> b.options.price,
          currency |-> b.options.currency]
    ELSE [recipient |-> Config(penv).address,
          amount |-> IF b.options.price = Undefined THEN Config(penv).pricePerQuery
                     ELSE b.options.price,
          currency |-> "USDC"]

Incomplete(requirement) ==
    \/ ~Truthy(requirement.recipient)
    \/ ~Truthy(requirement.amount)
    \/ ~Truthy(requirement.currency)

IsGate(b) == b.kind \in {"package", "server"}

\* C16: constructing a gate whose recipient, amount or currency is missing
\* fails with an error; no middleware is returned, so no request is ever
\* handled under an incomplete requirement.
C16_IncompleteRequirementFailsConstruction ==
    \A i \in DOMAIN built :
        (IsGate(built[i]) /\ Incomplete(RequirementOf(built[i]))) =>
            /\ built[i].out.error # Undefined
            /\ built[i].served = << >>

\* a network for which the code knows no USDC contract
Unsupported(network) == Truthy(network) /\ network \notin DOMAIN USDC_CONTRACTS

\* C17: an unsupported (network, currency) combination is rejected with a
\* configuration error when the verifier or gate is constructed; it is never
\* answered with a defaulted or guessed network, token contract or chain ID.
C17_UnsupportedNetworkRejected ==
    \A i \in DOMAIN built :
        /\ (built[i].kind = "usdc" /\ built[i].options.alchemy
               /\ Unsupported(built[i].options.network)
               /\ built[i].options.usdcContract = Undefined)
              => built[i].out.error # Undefined
        /\ (built[i].kind = "server" /\ Unsupported(Config(penv).network))
              => /\ built[i].out.error # Undefined
                 /\ \A k \in DOMAIN built[i].served :
                        "chainId" \notin DOMAIN built[i].served[k].payment

\* C18: verifying the same proof hash against the same requirement twice, at
\* any two points of an execution, yields the same result (USDC verifier and
\* demo verifier).
C18_SamePairSameResult ==
    /\ \A i, j \in DOMAIN vruns :
          vruns[i].verdict.result = vruns[j].verdict.result
    /\ \A i, j \in DOMAIN druns :
          (/\ druns[i].paymentHash = druns[j].paymentHash
           /\ druns[i].expectedAmount = druns[j].expectedAmount
           /\ druns[i].context = druns[j].context)
              => druns[i].out.result = druns[j].out.result

\* the request as it arrived, before its handler ran
Fresh(r) ==
    [route |-> r.route, proof |-> r.proof, amount |-> r.amount, pc |-> "arrived",
     verifierCalls |-> 0, asked |-> Undefined, rpc |-> "none", verdict |-> "none",
     nextCalls |-> 0, responses |-> <<>>, payment |-> {}]

\* what the verifier of a route does for a proof when no other request exists
VerifierAlone(name, paymentHash) ==
    IF Routes[name].verifier = "usdc"
    THEN { [rpc |-> RpcOf(lookup).kind, threw |-> FALSE,
            isValid |-> RouteUSDCVerify[name, lookup]] :
           lookup \in {LookupOf(paymentHash), "error"} }
    ELSE [rpc : {"none"}, threw : BOOLEAN, isValid : BOOLEAN]

\* every state the request passes through when it is the only request
ProcessedAlone(r) ==
    LET cfg == Routes[r.route]
        started == IF cfg.impl = "package" THEN PackageGateStart(Fresh(r), cfg)
                   ELSE ServerGateStart(Fresh(r), cfg.price, cfg.required)
        finished ==
            IF started.pc # "verifying" THEN {}
            ELSE IF cfg.impl = "package"
            THEN { PackageGateFinish(started, cfg, out) :
                     out \in VerifierAlone(r.route, r.proof) }
            ELSE { ServerGateFinish(started, cfg.price,
                                    VerifyPayment(r.proof, cfg.price, nodeEnv)) }
    IN  {Fresh(r), started} \cup finished

ProofKinds ==
    { k \in 1..NumKinds : KindProof(k) = "0xpaid" /\ KindAmount(k) = Undefined }

\* NumReq requests carrying that proof have arrived in a production deployment
LiveInit ==
    /\ nodeEnv = "production"
    /\ \E ks \in [Requests -> ProofKinds] :
          /\ Nondecreasing(ks)
          /\ reqs = [i \in Requests |-> NewRequest(ks[i])]
    /\ chainTx = [kind |-> "null"]
    /\ vreq = [expectedAmount |-> Chars("0.01"), recipient |-> Accounts["merchant"]]
    /\ vpc = "idle"
    /\ vruns = <<>>
    /\ NoDemo
    /\ NoBuild
    /\ NoHooked /\ NoPoll /\ NoCli

\* the request's verifier awaits alchemy.core.getTransactionReceipt
AwaitsLookup(i) ==
    /\ reqs[i].pc = "verifying"
    /\ Routes[reqs[i].route].verifier = "usdc"

\* the promise of getTransactionReceipt is never settled: the connection to
\* the RPC endpoint hangs
LookupHangs(i) ==
    /\ AwaitsLookup(i)
    /\ reqs[i].rpc = "none"
    /\ reqs' = [reqs EXCEPT ![i].rpc = "hung"]
    /\ UNCHANGED <<nodeEnv, vvars, dvars, bvars, xvars>>

\* the awaited promise settles and the handler of the package continues
PackageGateSettled(i) ==
    /\ reqs[i].rpc # "hung"
    /\ PackageGateResume(i)

LiveNext ==
    \E i \in Requests :
        \/ PackageGate(i)
        \/ PackageGateSettled(i)
        \/ LookupHangs(i)
        \/ ServerGate(i)
        \/ ServerGateResume(i)

\* Express calls the handler of every request that arrived, and the event
\* loop resumes every handler whose awaited promise has settled
LiveSpec ==
    /\ LiveInit
    /\ [][LiveNext]_vars
    /\ \A i \in Requests :
          /\ WF_vars(PackageGate(i))
          /\ WF_vars(PackageGateSettled(i))
          /\ WF_vars(ServerGate(i))
          /\ WF_vars(ServerGateResume(i))

\* C20: every request that presents a proof eventually reaches a terminal
\* outcome (next, 402 or 5xx), even if the receipt lookup never returns.
C20_ProofEventuallyTerminal ==
    \A i \in Requests :
        Truthy(reqs[i].proof) ~>
            (Done(i) /\ (reqs[i].nextCalls = 1 \/ Len(reqs[i].responses) = 1))

\* the request went through verification and the gate invoked next for it
VerifiedThrough(i) ==
    /\ RouteOf(i).required
    /\ reqs[i].nextCalls > 0

\* C21: when verification succeeds the request carries, once next has been
\* invoked, a payment context with hash = the presented proof, an amount, the
\* gate's currency, a verification timestamp and verified = true.
C21_PaymentContextAttached ==
    \A i \in DOMAIN reqs :
        VerifiedThrough(i) =>
            \E p \in reqs[i].payment :
                /\ reqs[i].payment = {p}
                /\ {"hash", "amount", "currency", "timestamp", "verified"} \subseteq DOMAIN p
                /\ p.hash = reqs[i].proof
                /\ p.currency = RouteOf(i).currency
                /\ p.verified = TRUE

\* the request presents the proof 'demo' to the Vend server's gate
ServerDemoRequest(i) ==
    /\ RouteOf(i).impl = "server"
    /\ RouteOf(i).required
    /\ reqs[i].proof = "demo"

\* C22: the Vend server's gate accepts the proof 'demo' only when NODE_ENV is
\* 'development': there the request proceeds with req.payment.hash = 'demo'
\* and verified = true; in every other mode it is rejected.
C22_ServerDemoOnlyInDevelopment ==
    \A i \in DOMAIN reqs :
        (ServerDemoRequest(i) /\ Done(i)) =>
            IF nodeEnv = "development"
            THEN /\ reqs[i].nextCalls = 1
                 /\ reqs[i].responses = << >>
                 /\ \E p \in reqs[i].payment : p.hash = "demo" /\ p.verified = TRUE
            ELSE /\ reqs[i].nextCalls = 0
                 /\ reqs[i].payment = {}
                 /\ Len(reqs[i].responses) = 1
                 /\ reqs[i].responses[1].status = 402
                 /\ reqs[i].responses[1].error = "Invalid Payment"

\* in development a demo request has passed the server's gate
C22_Witness ==
    \E i \in DOMAIN reqs :
        /\ ServerDemoRequest(i) /\ Done(i)
        /\ nodeEnv = "development"
        /\ reqs[i].nextCalls = 1

(***************************************************************************)
(* HookSpec: one request through a gate whose logger, onVerified,          *)
(* onRejected and next may throw                                           *)
(***************************************************************************)
\* a callback option: not given, a function that returns, a function that throws
CallbackKinds == {"absent", "ok", "throws"}

\* One statement of the handler, run on the request state h.  A callback that
\* is not given is skipped (if (logger), if (onVerified), if (onRejected));
\* next is always given.  h.threw is set when the statement throws.
ExecStatement(h, statement) ==
    CASE statement = "log" ->
            IF h.logger = "throws" THEN [h EXCEPT !.threw = TRUE] ELSE h
      [] statement = "onVerified" ->
            IF h.onVerified = "throws" THEN [h EXCEPT !.threw = TRUE] ELSE h
      [] statement = "onRejected" ->
            IF h.onRejected = "throws" THEN [h EXCEPT !.threw = TRUE] ELSE h
      [] statement = "attach" -> [h EXCEPT !.payment = TRUE]
      [] statement = "next" ->
            [h EXCEPT !.nextCalls = @ + 1, !.threw = (h.next = "throws")]
      [] statement = "402" -> [h EXCEPT !.responses = Append(@, 402)]
      [] statement = "500" -> [h EXCEPT !.responses = Append(@, 500)]

\* the statements in order, up to the first that throws
RECURSIVE ExecStatements(_, _)
ExecStatements(h, statements) ==
    IF statements = << >> \/ h.threw THEN h
    ELSE ExecStatements(ExecStatement(h, Head(statements)), Tail(statements))

\* the callbacks a handler has: those of the package are options, the Vend
\* server calls its module logger and has no onVerified / onRejected
Callbacks(impl) ==
    IF impl = "package" THEN <<"log", "onVerified", "onRejected">> ELSE <<"log">>

Only(impl, statements) ==
    SelectSeq(statements,
              LAMBDA x : x \in {"attach", "next", "402", "500"}
                         \/ \E k \in DOMAIN Callbacks(impl) : Callbacks(impl)[k] = x)

\* a throw outside the try block rejects the promise of the async handler
Unprotected(h, statements) ==
    LET after == ExecStatements(h, Only(h.impl, statements))
    IN  [after EXCEPT !.pc = "done", !.rejected = after.threw, !.threw = FALSE]

\* catch (error) { log; onRejected; res.status(500).json }
CatchBlock(h) ==
    Unprotected([h EXCEPT !.threw = FALSE], <<"log", "onRejected", "500">>)

\* statements inside the try block: a throw is handled by the catch block
Protected(h, statements) ==
    LET after == ExecStatements(h, Only(h.impl, statements))
    IN  IF after.threw THEN CatchBlock(after) ELSE [after EXCEPT !.pc = "done"]

\* the handler up to  await verifier  (or to its end)
HookedGateStart(h) ==
    IF ~h.required THEN Unprotected(h, <<"log", "next">>)
    ELSE IF ~h.hasProof THEN Unprotected(h, <<"log", "402">>)
    ELSE IF h.impl = "package"
    THEN LET after == ExecStatements(h, <<"log">>)
         IN  IF after.threw THEN CatchBlock(after) ELSE [after EXCEPT !.pc = "verifying"]
    ELSE [h EXCEPT !.pc = "verifying"]

\* the handler from the verifier's settlement ("true", "false", "threw")
HookedGateFinish(h, outcome) ==
    LET v == [h EXCEPT !.verdict = outcome]
    IN  IF outcome = "threw" THEN CatchBlock(v)
        ELSE IF outcome = "false" THEN Protected(v, <<"log", "onRejected", "402">>)
        ELSE Protected(v, <<"attach", "log", "onVerified", "next">>)

HookedRequests ==
    [pc : {"arrived"}, impl : {"package"}, required : BOOLEAN, hasProof : BOOLEAN,
     logger : CallbackKinds, onVerified : CallbackKinds, onRejected : CallbackKinds,
     next : {"ok", "throws"}, verdict : {"none"}, nextCalls : {0}, responses : {<< >>},
     payment : {FALSE}, threw : {FALSE}, rejected : {FALSE}]
    \cup
    [pc : {"arrived"}, impl : {"server"}, required : BOOLEAN, hasProof : BOOLEAN,
     logger : {"ok"}, onVerified : {"absent"}, onRejected : {"absent"},
     next : {"ok", "throws"}, verdict : {"none"}, nextCalls : {0}, responses : {<< >>},
     payment : {FALSE}, threw : {FALSE}, rejected : {FALSE}]

HookInit ==
    /\ hooked \in HookedRequests
    /\ NoPoll /\ NoCli
    /\ NoDemo
    /\ NoBuild
    /\ reqs = <<>>
    /\ nodeEnv = Undefined
    /\ chainTx = [kind |-> "null"]
    /\ vreq = [expectedAmount |-> Chars("0.01"), recipient |-> Accounts["merchant"]]
    /\ vpc = "idle"
    /\ vruns = <<>>

HookedGate ==
    /\ hooked.pc = "arrived"
    /\ hooked' = HookedGateStart(hooked)
    /\ UNCHANGED <<gvars, vvars, dvars, bvars, poll, cli>>

\* the package's verifier returns true or false or throws; verifyPayment of
\* the Vend server returns true or false
HookedGateResume ==
    /\ hooked.pc = "verifying"
    /\ \E outcome \in (IF hooked.impl = "package" THEN {"true", "false", "threw"}
                       ELSE {"true", "false"}) :
          hooked' = HookedGateFinish(hooked, outcome)
    /\ UNCHANGED <<gvars, vvars, dvars, bvars, poll, cli>>

HookNext == HookedGate \/ HookedGateResume

HookSpec == HookInit /\ [][HookNext]_vars

NothingThrows ==
    /\ "throws" \notin {hooked.logger, hooked.onVerified, hooked.onRejected, hooked.next}
    /\ hooked.verdict # "threw"

\* C23: a request that has passed through the gate ended in exactly one
\* terminal action: next invoked once, or one 402 response, or one 500
\* response, also when the verifier, the logger, onVerified, onRejected or
\* next throws.
C23_ExactlyOneTerminalAction ==
    hooked.pc = "done" =>
        \/ hooked.nextCalls = 1 /\ hooked.responses = << >>
        \/ hooked.nextCalls = 0 /\ hooked.responses = << 402 >>
        \/ hooked.nextCalls = 0 /\ hooked.responses = << 500 >>

\* C24: at the end of gate processing the request carries a payment context
\* exactly when verification succeeded and next was invoked for it; a request
\* answered with 402 or 500 carries none.
C24_PaymentContextIffAllowed ==
    hooked.pc = "done" =>
        /\ hooked.payment <=> (hooked.verdict = "true" /\ hooked.nextCalls = 1)
        /\ hooked.responses # << >> => ~hooked.payment

(***************************************************************************)
(* ReplaySpec: proofs presented again, on routes with different prices,    *)
(* with and without an X-Payment-Amount header                             *)
(***************************************************************************)
\* two routes guarded by the USDC verifier and the Vend server's route, the
\* proofs clients replay, and the X-Payment-Amount headers they send
ReplayRoutes == <<"paid", "cheap", "server">>
ReplayProofs == <<"0xpaid", "0xshort", "0xedge", "demo">>
ReplayAmounts == <<Undefined, "", "0.5">>

ReplayRequest(k) ==
    Fresh([route |-> ReplayRoutes[((k - 1) \div (Len(ReplayProofs) * Len(ReplayAmounts))) + 1],
           proof |-> ReplayProofs[(((k - 1) \div Len(ReplayAmounts)) % Len(ReplayProofs)) + 1],
           amount |-> ReplayAmounts[((k - 1) % Len(ReplayAmounts)) + 1]])

ReplayInit ==
    /\ nodeEnv = "development"
    /\ \E ks \in [Requests -> 1..(Len(ReplayRoutes) * Len(ReplayProofs) * Len(ReplayAmounts))] :
          /\ Nondecreasing(ks)
          /\ reqs = [i \in Requests |-> ReplayRequest(ks[i])]
    /\ chainTx = [kind |-> "null"]
    /\ vreq = [expectedAmount |-> Chars("0.01"), recipient |-> Accounts["merchant"]]
    /\ vpc = "idle"
    /\ vruns = <<>>
    /\ NoDemo
    /\ NoBuild
    /\ NoHooked /\ NoPoll /\ NoCli

ReplayNext ==
    \E i \in Requests :
        \/ PackageGate(i)
        \/ PackageGateResume(i)
        \/ ServerGate(i)
        \/ ServerGateResume(i)

ReplaySpec == ReplayInit /\ [][ReplayNext]_vars

\* the receipt lookup of the request resolved to the receipt
LookupResolved(i) == Done(i) /\ reqs[i].rpc = "receipt"

\* the route's price is at most the paid amount plus the tolerance
PriceCovered(i) ==
    ExactMicro(Chars(RouteOf(i).price)) <= ChainPaid[reqs[i].proof] + 1

\* C25: the gate keeps no record of used proofs: whatever other requests
\* presented, a request whose receipt lookup resolved is allowed exactly when
\* its route's price is at most the paid amount plus tolerance, so a proof
\* that verified once is accepted again on every such route.
C25_ProofAcceptedAgain ==
    \A i \in DOMAIN reqs :
        LookupResolved(i) => (reqs[i].nextCalls = 1 <=> PriceCovered(i))

(***************************************************************************)
(* SenderSpec: the same transaction with different senders                 *)
(***************************************************************************)
\* the receipt with the from-topic (topics[1]) of every log set to an account
WithSender(rpc, account) ==
    IF rpc.kind # "receipt" THEN rpc
    ELSE [rpc EXCEPT !.receipt.logs =
            [i \in DOMAIN @ |-> [@[i] EXCEPT !.topics[2] = PadTopic(Accounts[account])]]]

\* transactions of one event, successful or failed
SenderTransactions == [kind : {"mined"}, status : {0, 1}, events : {<<e>> : e \in EventKinds}]

SenderInit ==
    /\ chainTx \in SenderTransactions
    /\ vreq \in [expectedAmount : Prices, recipient : {Accounts["merchant"]}]
    /\ vpc = "idle"
    /\ vruns = <<>>
    /\ reqs = <<>>
    /\ nodeEnv = Undefined
    /\ NoDemo
    /\ NoBuild
    /\ NoHooked /\ NoPoll /\ NoCli

\* the verifier is called on the transaction as sent by one more account
VerifySentBy(account) ==
    /\ \A k \in DOMAIN vruns : vruns[k].sender # account
    /\ vruns' = Append(vruns, [rpc |-> "receipt", sender |-> account,
                               verdict |-> USDCVerify(SepoliaVerifier,
                                              WithSender(MkReceipt(chainTx), account),
                                              vreq.expectedAmount,
                                              [recipient |-> vreq.recipient])])
    /\ UNCHANGED <<chainTx, vreq, vpc, gvars, dvars, bvars, xvars>>

SenderNext == \E account \in DOMAIN Accounts : VerifySentBy(account)

SenderSpec == SenderInit /\ [][SenderNext]_vars

\* C26: receipts that differ only in the from-topic of their Transfer log
\* receive the same verdict: the verdict does not depend on the sender.
C26_VerdictIndependentOfSender ==
    \A i, j \in DOMAIN vruns : vruns[i].verdict = vruns[j].verdict

\* a sufficient transfer to the merchant was verified for two senders, one of
\* them the merchant itself
C26_Witness ==
    \E i, j \in DOMAIN vruns :
        /\ vruns[i].sender = "merchant" /\ vruns[j].sender = "payer"
        /\ vruns[i].verdict.result /\ vruns[j].verdict.result

\* the request was allowed through a gate that required payment
Allowed(i) == Done(i) /\ RouteOf(i).required /\ reqs[i].nextCalls = 1

\* C27: the amount of the attached payment context is the X-Payment-Amount
\* header when that header is non-empty and the route price otherwise; the
\* header is not compared with the on-chain amount and does not influence
\* whether the request is allowed.
C27_RecordedAmountIsHeaderOrPrice ==
    /\ \A i \in DOMAIN reqs :
          Allowed(i) =>
              \E p \in reqs[i].payment :
                  p.amount = IF reqs[i].amount \in {Undefined, ""}
                             THEN RouteOf(i).price ELSE reqs[i].amount
    /\ \A i, j \in DOMAIN reqs :
          (/\ Done(i) /\ Done(j)
           /\ reqs[i].route = reqs[j].route /\ reqs[i].proof = reqs[j].proof
           /\ reqs[i].rpc = reqs[j].rpc)
              => reqs[i].nextCalls = reqs[j].nextCalls

\* the same paid transaction was allowed on a USDC route once with a header
\* that names another amount and once with an empty header
C27_Witness ==
    \E i, j \in DOMAIN reqs :
        /\ Allowed(i) /\ Allowed(j)
        /\ RouteOf(i).verifier = "usdc" /\ reqs[i].route = reqs[j].route
        /\ reqs[i].amount = "0.5" /\ reqs[j].amount = ""
        /\ \E p \in reqs[i].payment : p.amount = "0.5"
        /\ \E p \in reqs[j].payment : p.amount = RouteOf(j).price

(***************************************************************************)
(* BypassSpec: demoPaymentBypass mounted before the Vend server's gate     *)
(***************************************************************************)
\* config.nodeEnv = process.env.NODE_ENV || 'development'
ConfigNodeEnv(env) == IF Truthy(env) THEN env ELSE "development"

\* demoPaymentBypass: the x-payment-hash header after it ran
DemoPaymentBypass(paymentHash, env) ==
    IF ConfigNodeEnv(env) = "development" /\ ~Truthy(paymentHash) THEN "demo"
    ELSE paymentHash

BypassEnvs == NodeEnvs \cup {"", "test"}

BypassProofs == <<Undefined, "", "demo", "0xpaid">>

BypassInit ==
    /\ nodeEnv \in BypassEnvs
    /\ \E ks \in [Requests -> DOMAIN BypassProofs] :
          /\ Nondecreasing(ks)
          /\ reqs = [i \in Requests |->
                       [Fresh([route |-> "server", proof |-> BypassProofs[ks[i]],
                               amount |-> Undefined])
                          EXCEPT !.pc = "incoming"] @@ [injected |-> FALSE]]
    /\ chainTx = [kind |-> "null"]
    /\ vreq = [expectedAmount |-> Chars("0.01"), recipient |-> Accounts["merchant"]]
    /\ vpc = "idle"
    /\ vruns = <<>>
    /\ NoDemo
    /\ NoBuild
    /\ NoHooked /\ NoPoll /\ NoCli

\* demoPaymentBypass runs on the request and calls next, which is the gate
BypassRequest(i) ==
    /\ reqs[i].pc = "incoming"
    /\ reqs' = [reqs EXCEPT ![i].pc = "arrived",
                            ![i].proof = DemoPaymentBypass(reqs[i].proof, nodeEnv),
                            ![i].injected =
                                DemoPaymentBypass(reqs[i].proof, nodeEnv) # reqs[i].proof]
    /\ UNCHANGED <<nodeEnv, vvars, dvars, bvars, xvars>>

BypassNext ==
    \E i \in Requests :
        \/ BypassRequest(i)
        \/ ServerGate(i)
        \/ ServerGateResume(i)

BypassSpec == BypassInit /\ [][BypassNext]_vars

\* C28: whenever demoPaymentBypass injected the 'demo' proof into a request
\* that had none, verifyPayment accepts it, for every value of NODE_ENV, unset
\* included.
C28_InjectedDemoIsAccepted ==
    \A i \in DOMAIN reqs :
        (reqs[i].injected /\ Done(i)) =>
            /\ reqs[i].proof = "demo"
            /\ reqs[i].verdict = "true"
            /\ reqs[i].nextCalls = 1

(***************************************************************************)
(* PollSpec: webhook polling of one watched address                        *)
(***************************************************************************)
MaxPollRuns == 2

MaxBlock == 11

\* the blocks mined while polling; the hexadecimal of 10 and above differs
\* from the decimal
Blocks == 9..MaxBlock

\* Number.prototype.toString(16)
RECURSIVE ToString16(_)
ToString16(n) ==
    IF n < 16 THEN <<HexDigits[n + 1]>>
    ELSE ToString16(n \div 16) \o <<HexDigits[(n % 16) + 1]>>

\* a transfer's blockNum as the Alchemy API returns it
BlockNum(n) == <<"0", "x">> \o ToString16(n)

RECURSIVE ParseDigits16(_, _)
ParseDigits16(cs, acc) ==
    IF cs = <<>> THEN acc
    ELSE ParseDigits16(Tail(cs), 16 * acc + HexVal(Head(cs)))

\* parseInt(s, 16) of a 0x-prefixed string
ParseInt16(s) == ParseDigits16(SubSeq(s, 3, Len(s)), 0)

\* the fromBlock checkWebhooks asks for; <<>> stands for undefined
FromBlockOf(lastBlock) ==
    IF lastBlock = <<>> THEN <<>>
    ELSE <<"0", "x">> \o ToString16(ParseInt16(lastBlock) + 1)

\* getAssetTransfers with order 'desc': the address's transfers from fromBlock
\* on, latest first
RECURSIVE Descending(_)
Descending(bs) ==
    IF bs = {} THEN <<>>
    ELSE LET top == CHOOSE b \in bs : \A c \in bs : c <= b
         IN <<top>> \o Descending(bs \ {top})

GetAssetTransfers(transfers, fromBlock) ==
    Descending({b \in transfers : fromBlock = <<>> \/ b >= ParseInt16(fromBlock)})

\* the active webhooks subscribed to the watched address, in registry order
HookLists == {<<>>, <<"w1">>, <<"w1", "w2">>}

PollInit ==
    /\ poll \in {[pc |-> "stopped", hooks |-> hs, height |-> 8, transfers |-> {},
                  file |-> <<>>, saved |-> <<>>, runs |-> <<>>,
                  sent |-> [w \in {"w1", "w2"} |-> [b \in Blocks |-> 0]]] :
                 hs \in HookLists}
    /\ nodeEnv = "production"
    /\ reqs = <<>>
    /\ chainTx = [kind |-> "null"]
    /\ vreq = [expectedAmount |-> Chars("0.01"), recipient |-> Accounts["merchant"]]
    /\ vpc = "idle"
    /\ vruns = <<>>
    /\ NoDemo
    /\ NoBuild
    /\ NoHooked /\ NoCli

\* checkWebhooks up to its first await: the registry and the last-block file
\* are read, the transfers of the address are asked for
CheckWebhooks(p) ==
    [p EXCEPT !.runs = Append(@,
        IF p.hooks = <<>> THEN [pc |-> "done", lastBlocks |-> p.file,
                                fromBlock |-> <<>>, result |-> <<>>, hook |-> 0]
        ELSE [pc |-> "fetch", lastBlocks |-> p.file,
              fromBlock |-> FromBlockOf(p.file), result |-> <<>>, hook |-> 0])]

\* sendWebhookNotification posts the transfers to one webhook
SendWebhookNotification(sent, webhook, result) ==
    [sent EXCEPT ![webhook] =
        [b \in Blocks |-> IF \E k \in DOMAIN result : result[k] = b
                          THEN @[b] + 1 ELSE @[b]]]

\* startWebhookPolling: the initial run is started and not awaited
StartWebhookPolling ==
    /\ poll.pc = "stopped"
    /\ poll' = [CheckWebhooks(poll) EXCEPT !.pc = "polling"]
    /\ UNCHANGED <<gvars, vvars, dvars, bvars, hooked, cli>>

\* a setInterval tick starts a run, whatever the earlier runs are doing
IntervalTick ==
    /\ poll.pc = "polling"
    /\ Len(poll.runs) < MaxPollRuns
    /\ poll' = CheckWebhooks(poll)
    /\ UNCHANGED <<gvars, vvars, dvars, bvars, hooked, cli>>

\* a block is mined, with or without a transfer of the watched address
Mine ==
    /\ poll.pc # "off"
    /\ poll.height < MaxBlock
    /\ \E transfer \in BOOLEAN :
          poll' = [poll EXCEPT !.height = @ + 1,
                               !.transfers = IF transfer THEN @ \cup {poll.height + 1}
                                             ELSE @]
    /\ UNCHANGED <<gvars, vvars, dvars, bvars, hooked, cli>>

\* the API answers run r's query from the chain as it is; the answer is in
\* flight until the run's await resumes
GetAssetTransfersResponds(r) ==
    /\ poll.pc # "off"
    /\ r \in DOMAIN poll.runs
    /\ poll.runs[r].pc = "fetch"
    /\ poll' = [poll EXCEPT
                  !.runs[r].pc = "fetched",
                  !.runs[r].result = GetAssetTransfers(poll.transfers,
                                                       poll.runs[r].fromBlock)]
    /\ UNCHANGED <<gvars, vvars, dvars, bvars, hooked, cli>>

\* the await of getAssetTransfers resumes run r: with transfers, the run's
\* copy of the last blocks is updated and saved, and the first webhook posted
GetAssetTransfersResolves(r) ==
    /\ poll.pc # "off"
    /\ r \in DOMAIN poll.runs
    /\ poll.runs[r].pc = "fetched"
    /\ LET result == poll.runs[r].result
           latestBlock == BlockNum(result[1])
       IN IF result = <<>>
          THEN poll' = [poll EXCEPT !.runs[r].pc = "done"]
          ELSE poll' = [poll EXCEPT !.runs[r].pc = "notify",
                                    !.runs[r].lastBlocks = latestBlock,
                                    !.runs[r].hook = 1,
                                    !.file = latestBlock,
                                    !.saved = Append(@, latestBlock),
                                    !.sent = SendWebhookNotification(@, poll.hooks[1],
                                                                     result)]
    /\ UNCHANGED <<gvars, vvars, dvars, bvars, hooked, cli>>

\* getAssetTransfers rejects: the catch logs it and the run is over
GetAssetTransfersRejects(r) ==
    /\ poll.pc # "off"
    /\ r \in DOMAIN poll.runs
    /\ poll.runs[r].pc = "fetch"
    /\ poll' = [poll EXCEPT !.runs[r].pc = "done"]
    /\ UNCHANGED <<gvars, vvars, dvars, bvars, hooked, cli>>

\* the await of sendWebhookNotification resumes run r: the next webhook of
\* the address is posted the transfers the run fetched
NotificationSettles(r) ==
    /\ poll.pc # "off"
    /\ r \in DOMAIN poll.runs
    /\ poll.runs[r].pc = "notify"
    /\ IF poll.runs[r].hook < Len(poll.hooks)
       THEN poll' = [poll EXCEPT
                !.runs[r].hook = @ + 1,
                !.sent = SendWebhookNotification(@, poll.hooks[poll.runs[r].hook + 1],
                                                 poll.runs[r].result)]
       ELSE poll' = [poll EXCEPT !.runs[r].pc = "done"]
    /\ UNCHANGED <<gvars, vvars, dvars, bvars, hooked, cli>>

PollNext ==
    \/ StartWebhookPolling
    \/ IntervalTick
    \/ Mine
    \/ \E r \in 1..MaxPollRuns :
          \/ GetAssetTransfersResponds(r)
          \/ GetAssetTransfersResolves(r)
          \/ GetAssetTransfersRejects(r)
          \/ NotificationSettles(r)

PollSpec == PollInit /\ [][PollNext]_vars

\* C29: no transfer is notified twice to a subscribed webhook, and the last
\* block saved for the watched address never moves backwards, runs that
\* overlap included.
C29_TransferNotifiedAtMostOnce ==
    poll.pc # "off" =>
        /\ \A w \in DOMAIN poll.sent : \A b \in Blocks : poll.sent[w][b] <= 1
        /\ \A i \in DOMAIN poll.saved : \A j \in DOMAIN poll.saved :
              i <= j => ParseInt16(poll.saved[i]) <= ParseInt16(poll.saved[j])

(***************************************************************************)
(* CliSpec: one invocation of `vend query` against a gated route           *)
(***************************************************************************)
\* what a route answers to GET with the given X-Payment-Hash: the gate's
\* response, or the downstream handler's 200 when the gate called next
ReplyOf(r) ==
    IF r.nextCalls > 0 THEN [status |-> 200, data |-> [data |-> "transfers"]]
    ELSE [status |-> r.responses[1].status, data |-> r.responses[1]]

GateReplies(route, paymentHash) ==
    LET cfg == Routes[route]
        r == Fresh([route |-> route, proof |-> paymentHash, amount |-> Undefined])
        started == IF cfg.impl = "package" THEN PackageGateStart(r, cfg)
                   ELSE ServerGateStart(r, cfg.price, cfg.required)
    IN IF started.pc = "done" THEN {ReplyOf(started)}
       ELSE IF cfg.impl = "package"
       THEN {ReplyOf(PackageGateFinish(started, cfg, out)) :
                out \in [rpc : {"none"}, threw : BOOLEAN, isValid : BOOLEAN]}
       ELSE {ReplyOf(ServerGateFinish(started, cfg.price, isValid)) :
                isValid \in BOOLEAN}

\* X402Client.request: the header is sent only for a truthy hash; axios throws
\* on a status of 500 and above (validateStatus) and when no reply arrives
\* (status 0 here)
X402Request(route, paymentHash) ==
    GateReplies(route, IF Truthy(paymentHash) THEN paymentHash ELSE Undefined)
        \cup {[status |-> 0, data |-> <<>>]}

AxiosThrows(reply) == reply.status = 0 \/ reply.status >= 500

\* paymentInfo.message.includes('could not be verified'), for the messages
\* of the gates' responses
CouldNotBeVerified(message) ==
    CASE message = "Payment could not be verified" -> TRUE
      [] message = "Failed to verify payment" -> FALSE

\* NETWORK_CONFIGS[network]
NetworkSupported(payment) ==
    "network" \in DOMAIN payment /\ payment.network \in {"base-sepolia", "base-mainnet"}

\* how PaymentService.sendPayment may end: the transfer confirmed and its hash
\* returned, the transfer sent and reverted, a throw before anything was
\* sent, or process.exit(1) for an insufficient balance
SendPayment(payment) ==
    IF NetworkSupported(payment) THEN {"confirmed", "reverted", "threw", "exit"}
    ELSE {"threw"}

CliRoutes == {"paid", "custom", "server", "open"}

CliInit ==
    /\ cli \in {[pc |-> "start", route |-> route, wallet |-> wallet, txHash |-> txHash,
                 requests |-> <<>>, replies |-> <<>>, payments |-> <<>>,
                 payment |-> <<>>, output |-> <<>>, exit |-> "none"] :
                route \in CliRoutes, wallet \in BOOLEAN,
                txHash \in {Undefined, "0xgiven"}}
    /\ nodeEnv = "production"
    /\ reqs = <<>>
    /\ chainTx = [kind |-> "null"]
    /\ vreq = [expectedAmount |-> Chars("0.01"), recipient |-> Accounts["merchant"]]
    /\ vpc = "idle"
    /\ vruns = <<>>
    /\ NoDemo
    /\ NoBuild
    /\ NoHooked /\ NoPoll

\* displaySuccessResponse
DisplaySuccessResponse(c) == [c EXCEPT !.pc = "done", !.output = Append(@, "Success!")]

\* the manual payment flow up to its prompt
ManualFlow(c) == [c EXCEPT !.pc = "prompt", !.output = Append(@, "Payment Required")]

\* handlePaymentRequired up to its first await
HandlePaymentRequired(c, paymentInfo) ==
    IF "message" \in DOMAIN paymentInfo /\ CouldNotBeVerified(paymentInfo.message)
    THEN [c EXCEPT !.pc = "exited", !.exit = "1", !.output = Append(@, "Invalid Payment")]
    ELSE IF "payment" \notin DOMAIN paymentInfo /\ "expected" \notin DOMAIN paymentInfo
    THEN [c EXCEPT !.pc = "exited", !.exit = "1",
                   !.output = Append(@, "Invalid payment response structure")]
    ELSE LET payment == IF "payment" \in DOMAIN paymentInfo THEN paymentInfo.payment
                        ELSE paymentInfo.expected
         IN IF c.wallet THEN [c EXCEPT !.pc = "paying", !.payment = payment]
            ELSE ManualFlow([c EXCEPT !.payment = payment])

\* queryCommand sends the initial request with options.txHash
QueryCommand ==
    /\ cli.pc = "start"
    /\ cli' = [cli EXCEPT !.pc = "initial", !.requests = Append(@, cli.txHash)]
    /\ UNCHANGED <<gvars, vvars, dvars, bvars, hooked, poll>>

\* the initial request settles
InitialReply ==
    /\ cli.pc = "initial"
    /\ \E reply \in X402Request(cli.route, cli.txHash) :
          LET c == [cli EXCEPT !.replies = Append(@, reply.status)]
          IN cli' = IF AxiosThrows(reply)
                    THEN [c EXCEPT !.pc = "exited", !.exit = "1",
                                   !.output = Append(@, "Error")]
                    ELSE IF reply.status = 402
                    THEN HandlePaymentRequired(c, reply.data)
                    ELSE DisplaySuccessResponse(c)
    /\ UNCHANGED <<gvars, vvars, dvars, bvars, hooked, poll>>

\* sendPayment settles; with a hash the request is retried with it
SendPaymentSettles ==
    /\ cli.pc = "paying"
    /\ \E outcome \in SendPayment(cli.payment) :
          cli' = CASE outcome = "confirmed" ->
                        [cli EXCEPT !.pc = "retry", !.payments = Append(@, "0xauto"),
                                    !.requests = Append(@, "0xauto")]
                   [] outcome = "reverted" ->
                        ManualFlow([cli EXCEPT !.payments = Append(@, "0xauto"),
                                      !.output = Append(@, "Automatic payment failed")])
                   [] outcome = "threw" ->
                        ManualFlow([cli EXCEPT
                                      !.output = Append(@, "Automatic payment failed")])
                   [] outcome = "exit" ->
                        [cli EXCEPT !.pc = "exited", !.exit = "1",
                                    !.output = Append(@, "Insufficient USDC balance")]
    /\ UNCHANGED <<gvars, vvars, dvars, bvars, hooked, poll>>

\* the request retried after the automatic payment settles
RetryReply ==
    /\ cli.pc = "retry"
    /\ \E reply \in X402Request(cli.route, cli.payments[1]) :
          LET c == [cli EXCEPT !.replies = Append(@, reply.status)]
          IN cli' = IF AxiosThrows(reply)
                    THEN ManualFlow([c EXCEPT
                                       !.output = Append(@, "Automatic payment failed")])
                    ELSE DisplaySuccessResponse(
                             [c EXCEPT !.output = Append(@, "Payment verified!")])
    /\ UNCHANGED <<gvars, vvars, dvars, bvars, hooked, poll>>

\* the user answers the prompts of the manual flow: cancels, or enters the
\* hash of a payment made by hand, with which the request is retried
Prompt ==
    /\ cli.pc = "prompt"
    /\ \E action \in {"continue", "copy", "cancel"} : \E retry \in BOOLEAN :
          cli' = IF action = "cancel" \/ (action = "copy" /\ ~retry)
                 THEN [cli EXCEPT !.pc = "exited", !.exit = "0",
                                  !.output = Append(@, "Cancelled.")]
                 ELSE [cli EXCEPT !.pc = "manual", !.requests = Append(@, "0xmanual")]
    /\ UNCHANGED <<gvars, vvars, dvars, bvars, hooked, poll>>

\* the request retried with the hash entered by hand settles
ManualReply ==
    /\ cli.pc = "manual"
    /\ \E reply \in X402Request(cli.route, "0xmanual") :
          LET c == [cli EXCEPT !.replies = Append(@, reply.status)]
          IN cli' = IF AxiosThrows(reply)
                    THEN [c EXCEPT !.pc = "exited", !.exit = "1",
                                   !.output = Append(@, "Payment verification failed")]
                    ELSE DisplaySuccessResponse(
                             [c EXCEPT !.output = Append(@, "Payment verified!")])
    /\ UNCHANGED <<gvars, vvars, dvars, bvars, hooked, poll>>

CliNext ==
    \/ QueryCommand
    \/ InitialReply
    \/ SendPaymentSettles
    \/ RetryReply
    \/ Prompt
    \/ ManualReply

CliSpec == CliInit /\ [][CliNext]_vars

\* C30: after a 402 reply the CLI sends at most one automatic payment per
\* invocation, retries the request with that payment's transaction hash, and
\* reports 'Payment verified' and displays success only if the retried
\* request was not answered with 402.
C30_VerifiedOnlyWhenRetryNot402 ==
    cli.pc # "off" =>
        /\ Len(cli.payments) <= 1
        /\ cli.pc = "retry" => cli.requests[Len(cli.requests)] = cli.payments[1]
        /\ (/\ cli.payments # <<>>
            /\ Len(cli.replies) >= 2
            /\ cli.requests[2] = cli.payments[1]
            /\ \E k \in DOMAIN cli.output : cli.output[k] \in {"Payment verified!",
                                                               "Success!"}) =>
              cli.replies[2] # 402

=============================================================================
